---------------------------- MODULE Spec2Model ----------------------------
(***************************************************************************)
(* Verification model of BuildCache (PazerOP/buildcache):                  *)
(*   base/file_utils.cpp      (src/unnamed/part_001)                       *)
(*   wrappers/gcc_wrapper.cpp, wrappers/msvc_wrapper.cpp,                  *)
(*   base/unicode_utils.cpp   (src/src/wrappers/gcc_wrapper.cpp)           *)
(*                                                                         *)
(* The file primitives are modelled for the POSIX branch of the #ifdefs    *)
(* at system-call granularity: every action is one system call (or one     *)
(* library call that makes one) of the function it belongs to, so that     *)
(* other processes can be scheduled between any two of them.               *)
(***************************************************************************)
EXTENDS Integers, Sequences, FiniteSets, TLC

VARIABLES
  fs,     \* directory entries: path -> inode number, or NoInode
  ino,    \* inode -> content (a sequence of chunks); survives unlink
  pc,     \* per process: the place in the function it executes
  loc,    \* per process: the function's local variables
  rd      \* the concurrent reader of file::read(path): what it holds / saw

vars == <<fs, ino, pc, loc, rd>>

(***************************************************************************)
(* Bounds of the model.                                                    *)
(***************************************************************************)
NumWriters == 3       \* processes that call write_atomic concurrently
DataLen == 2          \* chunks in one file content
TreeDepth == 2        \* nesting depth of the directory tree below a path

NoInode == 0 - 1

(***************************************************************************)
(* write_atomic(data, path), called by NumWriters processes for one path.  *)
(***************************************************************************)
Writers == 1 .. NumWriters

\* The path all writers write to, and the inode of the file it names first.
Target == <<"target", 0>>
OldInode == 0

\* tmp_file_t::tmp_file_t: the path is <dir>/bcache-<unique id>.tmp; the id
\* holds the process id, so concurrent processes get different paths.
TmpPath(p) == <<"tmp", p>>

WaPaths == {Target} \cup {TmpPath(p) : p \in Writers}

\* The data each caller passes, and the content the path has before.
Data(p) == [i \in 1 .. DataLen |-> p]
OldData == [i \in 1 .. DataLen |-> 0]

\* file_exists(path): stat() succeeds and names a regular file.
file_exists(path) == fs[path] # NoInode

WaInit ==
  /\ fs = [q \in WaPaths |-> IF q = Target THEN OldInode ELSE NoInode]
  /\ ino = [n \in {OldInode} \cup Writers |-> IF n = OldInode THEN OldData ELSE <<>>]
  /\ pc = [p \in Writers |-> "start"]
  /\ loc = [p \in Writers |-> [exists |-> FALSE, err |-> "none"]]
  /\ rd = [st |-> "idle", inode |-> NoInode, seen |-> <<>>]

\* write(): fopen(tmp, "wb") creates the temporary file, empty.
WaOpenTmp(p) ==
  /\ pc[p] = "start"
  /\ fs' = [fs EXCEPT ![TmpPath(p)] = p]
  /\ ino' = [ino EXCEPT ![p] = <<>>]
  /\ pc' = [pc EXCEPT ![p] = "write"]
  /\ UNCHANGED <<loc, rd>>

\* write(): the fwrite loop; the bytes reach the file chunk by chunk.
WaWriteChunk(p) ==
  /\ pc[p] = "write"
  /\ Len(ino[p]) < DataLen
  /\ ino' = [ino EXCEPT ![p] = Append(@, Data(p)[Len(@) + 1])]
  /\ UNCHANGED <<fs, pc, loc, rd>>

\* write(): bytes_left = 0, fclose; write_atomic goes on to step 2.
WaCloseTmp(p) ==
  /\ pc[p] = "write"
  /\ Len(ino[p]) = DataLen
  /\ pc' = [pc EXCEPT ![p] = "remove"]
  /\ UNCHANGED <<fs, ino, loc, rd>>

\* write_atomic step 2: remove_file(path, true): unlink, errors ignored.
WaRemoveTarget(p) ==
  /\ pc[p] = "remove"
  /\ fs' = [fs EXCEPT ![Target] = NoInode]
  /\ pc' = [pc EXCEPT ![p] = "mv_exists"]
  /\ UNCHANGED <<ino, loc, rd>>

\* move(): if (file_exists(to_path)) ...
MoveExists(p) ==
  /\ pc[p] = "mv_exists"
  /\ loc' = [loc EXCEPT ![p].exists = file_exists(Target)]
  /\ pc' = [pc EXCEPT ![p] = IF file_exists(Target) THEN "mv_remove" ELSE "mv_rename"]
  /\ UNCHANGED <<fs, ino, rd>>

\* move(): remove_file(to_path): unlink; a failure throws "Unable to remove file."
MoveRemove(p) ==
  /\ pc[p] = "mv_remove"
  /\ IF file_exists(Target)
       THEN /\ fs' = [fs EXCEPT ![Target] = NoInode]
            /\ pc' = [pc EXCEPT ![p] = "mv_rename"]
            /\ UNCHANGED loc
       ELSE /\ loc' = [loc EXCEPT ![p].err = "Unable to remove file."]
            /\ pc' = [pc EXCEPT ![p] = "unwind"]
            /\ UNCHANGED fs
  /\ UNCHANGED <<ino, rd>>

\* move(): std::rename(from_path, to_path); POSIX replaces to_path atomically.
MoveRename(p) ==
  /\ pc[p] = "mv_rename"
  /\ IF fs[TmpPath(p)] # NoInode
       THEN /\ fs' = [fs EXCEPT ![Target] = fs[TmpPath(p)], ![TmpPath(p)] = NoInode]
            /\ UNCHANGED loc
       ELSE /\ loc' = [loc EXCEPT ![p].err = "Unable to move file."]
            /\ UNCHANGED fs
  /\ pc' = [pc EXCEPT ![p] = "unwind"]
  /\ UNCHANGED <<ino, rd>>

\* tmp_file_t::~tmp_file_t at the end of write_atomic, on return and on throw:
\* the temporary file is removed if it is still there.
WaTmpDtor(p) ==
  /\ pc[p] = "unwind"
  /\ fs' = [fs EXCEPT ![TmpPath(p)] = NoInode]
  /\ pc' = [pc EXCEPT ![p] = IF loc[p].err = "none" THEN "returned" ELSE "threw"]
  /\ UNCHANGED <<ino, loc, rd>>

\* The process is killed (SIGKILL) inside write_atomic: no destructor runs.
WaKill(p) ==
  /\ pc[p] \notin {"returned", "threw", "killed"}
  /\ pc' = [pc EXCEPT ![p] = "killed"]
  /\ UNCHANGED <<fs, ino, loc, rd>>

\* A concurrent reader, file::read(path): fopen fails when the path is missing,
\* otherwise the stream is bound to the inode the path names now.
ReaderOpen ==
  /\ rd.st \in {"idle", "missing", "read"}
  /\ rd' = IF file_exists(Target)
             THEN [st |-> "open", inode |-> fs[Target], seen |-> <<>>]
             ELSE [st |-> "missing", inode |-> NoInode, seen |-> <<>>]
  /\ UNCHANGED <<fs, ino, pc, loc>>

\* file::read: the fread loop returns what the inode holds.
ReaderRead ==
  /\ rd.st = "open"
  /\ rd' = [rd EXCEPT !.st = "read", !.seen = ino[rd.inode]]
  /\ UNCHANGED <<fs, ino, pc, loc>>

WaNext ==
  \/ \E p \in Writers : WaOpenTmp(p)
  \/ \E p \in Writers : WaWriteChunk(p)
  \/ \E p \in Writers : WaCloseTmp(p)
  \/ \E p \in Writers : WaRemoveTarget(p)
  \/ \E p \in Writers : MoveExists(p)
  \/ \E p \in Writers : MoveRemove(p)
  \/ \E p \in Writers : MoveRename(p)
  \/ \E p \in Writers : WaTmpDtor(p)
  \/ \E p \in Writers : WaKill(p)
  \/ ReaderOpen
  \/ ReaderRead

SpecWriteAtomic == WaInit /\ [][WaNext]_vars

CompleteContents == {OldData} \cup {Data(p) : p \in Writers}

\* C1: a reader of path sees, in every intermediate state of write_atomic (also
\* when the writer was killed there), the complete previous content or the
\* complete new data: never a partial file and never a missing file.
C1_ReaderSeesOldOrNew ==
  /\ rd.st # "missing"
  /\ rd.st = "read" => rd.seen \in CompleteContents

\* C2: no concurrent call of write_atomic on one path raises an error, and once
\* all calls have returned the path holds the complete data of one caller.
C2_AllReturnOneWins ==
  /\ \A p \in Writers : pc[p] # "threw"
  /\ (\A p \in Writers : pc[p] = "returned") =>
       /\ file_exists(Target)
       /\ \E p \in Writers : ino[fs[Target]] = Data(p)


(***************************************************************************)
(* link_or_copy, copy and move, called by one process.  Every system call  *)
(* whose result the code tests may fail (EXDEV, EACCES, ENOSPC, EIO, ...). *)
(***************************************************************************)
FromPath == <<"from", 0>>
ToPath == <<"to", 0>>
CopyTmp == <<"tmp", 1>>
LcPaths == {FromPath, ToPath, CopyTmp}

FromInode == 0
ToInode == 1
TmpInode == 2

\* The content of from_path (chunks of BUFFER_SIZE bytes, all different) and
\* of the file that is at to_path before the call.
SrcData == [i \in 1 .. DataLen |-> i]
StrictPrefixes(d) == {SubSeq(d, 1, n) : n \in 0 .. (Len(d) - 1)}

\* What to_path is before the call: nothing, another file, a second name (hard
\* link) of from_path's file, or the very same path as from_path.
ToKinds == {"absent", "other", "hardlink", "samepath"}

LcInit ==
  \E op \in {"link_or_copy", "copy", "move"}, k \in ToKinds :
    /\ fs = [q \in LcPaths |->
               CASE q = FromPath -> FromInode
                 [] q = ToPath -> (CASE k = "other" -> ToInode
                                     [] k = "hardlink" -> FromInode
                                     [] OTHER -> NoInode)
                 [] OTHER -> NoInode]
    /\ ino = [n \in {FromInode, ToInode, TmpInode} |->
                CASE n = FromInode -> SrcData
                  [] n = ToInode -> OldData
                  [] OTHER -> <<>>]
    /\ pc = CASE op = "link_or_copy" -> "loc_exists"
              [] op = "copy" -> "cp_open_from"
              [] OTHER -> "mv_exists"
    /\ loc = [op |-> op, kind |-> k,
              from |-> FromPath,
              to |-> IF k = "samepath" THEN FromPath ELSE ToPath,
              mvfrom |-> FromPath,
              exists |-> FALSE, success |-> FALSE, pos |-> 0,
              linked |-> FALSE, readerr |-> FALSE, tmpleft |-> FALSE,
              err |-> "none"]
    /\ rd = [st |-> "idle", inode |-> NoInode, seen |-> <<>>]

\* link_or_copy: if (file_exists(to_path)) ...
LocExists ==
  /\ pc = "loc_exists"
  /\ loc' = [loc EXCEPT !.exists = file_exists(loc.to)]
  /\ pc' = IF file_exists(loc.to) THEN "loc_remove" ELSE "loc_link"
  /\ UNCHANGED <<fs, ino, rd>>

\* link_or_copy: remove_file(to_path): unlink; a failure throws.
LocRemove ==
  /\ pc = "loc_remove"
  /\ \E ok \in BOOLEAN :
       IF ok /\ file_exists(loc.to)
         THEN /\ fs' = [fs EXCEPT ![loc.to] = NoInode]
              /\ pc' = "loc_link"
              /\ UNCHANGED loc
         ELSE /\ loc' = [loc EXCEPT !.err = "Unable to remove file."]
              /\ pc' = "threw"
              /\ UNCHANGED fs
  /\ UNCHANGED <<ino, rd>>

\* link_or_copy: link(from_path, to_path); on failure copy(from_path, to_path).
LocLink ==
  /\ pc = "loc_link"
  /\ \E ok \in BOOLEAN :
       IF ok /\ fs[loc.from] # NoInode /\ fs[loc.to] = NoInode
         THEN /\ fs' = [fs EXCEPT ![loc.to] = fs[loc.from]]
              /\ loc' = [loc EXCEPT !.linked = TRUE]
              /\ pc' = "returned"
         ELSE /\ pc' = "cp_open_from"
              /\ UNCHANGED <<fs, loc>>
  /\ UNCHANGED <<ino, rd>>

\* copy: fopen(from_path, "rb"); nullptr leaves success = false.
CopyOpenFrom ==
  /\ pc = "cp_open_from"
  /\ \E ok \in BOOLEAN :
       IF ok /\ fs[loc.from] # NoInode
         THEN /\ rd' = [st |-> "open", inode |-> fs[loc.from], seen |-> <<>>]
              /\ pc' = "cp_open_tmp"
         ELSE /\ pc' = "cp_check"
              /\ UNCHANGED rd
  /\ loc' = [loc EXCEPT !.success = FALSE, !.pos = 0]
  /\ UNCHANGED <<fs, ino>>

\* copy: fopen(tmp_file.path(), "wb") creates the temporary file, empty.
CopyOpenTmp ==
  /\ pc = "cp_open_tmp"
  /\ \E ok \in BOOLEAN :
       IF ok
         THEN /\ fs' = [fs EXCEPT ![CopyTmp] = TmpInode]
              /\ ino' = [ino EXCEPT ![TmpInode] = <<>>]
              /\ loc' = [loc EXCEPT !.success = TRUE]
              /\ pc' = "cp_loop"
         ELSE /\ pc' = "cp_check"
              /\ UNCHANGED <<fs, ino, loc>>
  /\ UNCHANGED rd

\* copy: one round of the loop: fread of one buffer, then fwrite of the bytes
\* read.  fread returns 0 at the end of the file and on a read error alike, and
\* the loop is left by break in both cases; a short fwrite clears success.
CopyLoop(outcome) ==
  /\ pc = "cp_loop"
  /\ CASE outcome = "eof" ->
            /\ loc.pos = Len(ino[rd.inode])
            /\ pc' = "cp_check"
            /\ UNCHANGED <<ino, loc>>
       [] outcome = "readerror" ->
            /\ loc.pos < Len(ino[rd.inode])
            /\ loc' = [loc EXCEPT !.readerr = TRUE]
            /\ pc' = "cp_check"
            /\ UNCHANGED ino
       [] outcome = "copied" ->
            /\ loc.pos < Len(ino[rd.inode])
            /\ ino' = [ino EXCEPT ![TmpInode] = Append(@, ino[rd.inode][loc.pos + 1])]
            /\ loc' = [loc EXCEPT !.pos = @ + 1]
            /\ pc' = "cp_loop"
       [] outcome = "writeerror" ->
            /\ loc.pos < Len(ino[rd.inode])
            /\ loc' = [loc EXCEPT !.success = FALSE]
            /\ pc' = "cp_check"
            /\ UNCHANGED ino
  /\ UNCHANGED <<fs, rd>>

\* copy: fclose; if (!success) throw "Unable to copy file."; else move(tmp, to).
CopyCheck ==
  /\ pc = "cp_check"
  /\ IF loc.success
       THEN /\ loc' = [loc EXCEPT !.mvfrom = CopyTmp]
            /\ pc' = "mv_exists"
       ELSE /\ loc' = [loc EXCEPT !.err = "Unable to copy file."]
            /\ pc' = "cp_dtor"
  /\ UNCHANGED <<fs, ino, rd>>

\* move: if (file_exists(to_path)) ...
LcMoveExists ==
  /\ pc = "mv_exists"
  /\ loc' = [loc EXCEPT !.exists = file_exists(loc.to)]
  /\ pc' = IF file_exists(loc.to) THEN "mv_remove" ELSE "mv_rename"
  /\ UNCHANGED <<fs, ino, rd>>

\* Where move's caller goes on: copy runs the destructor of its tmp_file.
AfterMove == IF loc.mvfrom = CopyTmp THEN "cp_dtor"
             ELSE IF loc.err = "none" THEN "returned" ELSE "threw"
AfterMoveThrow == IF loc.mvfrom = CopyTmp THEN "cp_dtor" ELSE "threw"

\* move: remove_file(to_path): unlink; a failure throws.
LcMoveRemove ==
  /\ pc = "mv_remove"
  /\ \E ok \in BOOLEAN :
       IF ok /\ file_exists(loc.to)
         THEN /\ fs' = [fs EXCEPT ![loc.to] = NoInode]
              /\ pc' = "mv_rename"
              /\ UNCHANGED loc
         ELSE /\ loc' = [loc EXCEPT !.err = "Unable to remove file."]
              /\ pc' = AfterMoveThrow
              /\ UNCHANGED fs
  /\ UNCHANGED <<ino, rd>>

\* move: std::rename(from_path, to_path); a failure throws "Unable to move file."
\* rename of a path to itself, or to another name of the same file, does nothing.
LcMoveRename ==
  /\ pc = "mv_rename"
  /\ \E ok \in BOOLEAN :
       IF ok /\ fs[loc.mvfrom] # NoInode
         THEN /\ fs' = IF fs[loc.to] = fs[loc.mvfrom]
                         THEN fs
                         ELSE [fs EXCEPT ![loc.to] = fs[loc.mvfrom],
                                         ![loc.mvfrom] = NoInode]
              /\ pc' = IF loc.mvfrom = CopyTmp THEN "cp_dtor" ELSE "returned"
              /\ UNCHANGED loc
         ELSE /\ loc' = [loc EXCEPT !.err = "Unable to move file."]
              /\ pc' = AfterMoveThrow
              /\ UNCHANGED fs
  /\ UNCHANGED <<ino, rd>>

\* tmp_file_t::~tmp_file_t at the end of copy: if (file_exists(m_path))
\* remove_file(m_path); a failure is caught and logged.
CopyTmpDtor ==
  /\ pc = "cp_dtor"
  /\ \E ok \in BOOLEAN :
       IF ok \/ ~file_exists(CopyTmp)
         THEN /\ fs' = [fs EXCEPT ![CopyTmp] = NoInode]
              /\ UNCHANGED loc
         ELSE /\ loc' = [loc EXCEPT !.tmpleft = TRUE]
              /\ UNCHANGED fs
  /\ pc' = IF loc.err = "none" THEN "returned" ELSE "threw"
  /\ UNCHANGED <<ino, rd>>

\* The process is terminated (CTRL+C, SIGKILL): nothing more runs.
LcKill ==
  /\ pc \notin {"returned", "threw", "killed"}
  /\ pc' = "killed"
  /\ UNCHANGED <<fs, ino, loc, rd>>

LcNext ==
  \/ LocExists
  \/ LocRemove
  \/ LocLink
  \/ CopyOpenFrom
  \/ CopyOpenTmp
  \/ \E outcome \in {"eof", "readerror", "copied", "writeerror"} : CopyLoop(outcome)
  \/ CopyCheck
  \/ LcMoveExists
  \/ LcMoveRemove
  \/ LcMoveRename
  \/ CopyTmpDtor
  \/ LcKill

SpecLinkOrCopy == LcInit /\ [][LcNext]_vars

\* C3: whenever link_or_copy returns without error, to_path exists with the
\* content of from_path and from_path still exists with its content unchanged,
\* for every pair of paths, two names of the same file included.
C3_LinkOrCopyResult ==
  (pc = "returned" /\ loc.op = "link_or_copy") =>
     /\ file_exists(loc.to)
     /\ ino[fs[loc.to]] = SrcData
     /\ file_exists(loc.from)
     /\ ino[fs[loc.from]] = SrcData

\* C16: during copy(from_path, to_path), in every intermediate state, also
\* when the process is terminated there or the copy fails, to_path does not
\* hold a strict prefix of the content of from_path.
C16_NoHalfFinishedCopy ==
  (loc.op = "copy" /\ file_exists(loc.to)) => ino[fs[loc.to]] \notin StrictPrefixes(SrcData)

\* The same while fread reports no error: what is renamed to to_path is then
\* the complete content.
C16_NoHalfFinishedCopyWithoutReadError ==
  (loc.op = "copy" /\ ~loc.readerr /\ file_exists(loc.to))
    => ino[fs[loc.to]] \notin StrictPrefixes(SrcData)

\* C25: when reading from_path fails part-way (a read error, not the end of
\* the file), copy does not return without error and to_path is not replaced
\* by a truncated file.
C25_ReadErrorRaises ==
  (loc.op = "copy" /\ loc.readerr) =>
     /\ pc # "returned"
     /\ file_exists(loc.to) => ino[fs[loc.to]] \notin StrictPrefixes(SrcData)

\* When no read fails, copy returns without error only with every byte of
\* from_path at to_path.
C25_ReturnsCompleteWithoutReadError ==
  (loc.op = "copy" /\ ~loc.readerr /\ pc = "returned") =>
     /\ file_exists(loc.to)
     /\ ino[fs[loc.to]] = SrcData

\* What is at to_path before the call, if a file is there.
ToDataBefore == IF loc.kind = "other" THEN OldData ELSE SrcData

\* C26: when move or link_or_copy ends with an error, a file that was at
\* to_path before the call is still there with its content unchanged.
C26_TargetKeptOnError ==
  (pc = "threw" /\ loc.op \in {"move", "link_or_copy"} /\ loc.kind # "absent") =>
     /\ file_exists(loc.to)
     /\ ino[fs[loc.to]] = ToDataBefore

\* The file at to_path is kept when the error is that it could not be removed.
C26_TargetKeptWhenRemoveFails ==
  (pc = "threw" /\ loc.op \in {"move", "link_or_copy"} /\ loc.kind # "absent"
     /\ loc.err = "Unable to remove file.") =>
     /\ file_exists(loc.to)
     /\ ino[fs[loc.to]] = ToDataBefore

(***************************************************************************)
(* tmp_file_t::~tmp_file_t, remove_dir and walk_directory on a directory   *)
(* tree.  A node is the sequence of names below m_path; fs maps it to what *)
(* stat() finds there: "none", "file", "dir", or "symlink" for a dangling  *)
(* symbolic link (stat fails, the directory entry exists).                 *)
(***************************************************************************)
NameSeq == <<"a", "b">>
RootPath == <<>>

RECURSIVE NodesBelow(_, _)
NodesBelow(path, d) ==
  IF d = 0 THEN {path}
  ELSE {path} \cup UNION {NodesBelow(Append(path, NameSeq[i]), d - 1) : i \in 1 .. Len(NameSeq)}

TreeNodes == NodesBelow(RootPath, TreeDepth)

Parent(q) == SubSeq(q, 1, Len(q) - 1)
Children(t, q) == {c \in TreeNodes : Len(c) = Len(q) + 1 /\ Parent(c) = q /\ t[c] # "none"}
IsPrefix(q, c) == Len(q) <= Len(c) /\ SubSeq(c, 1, Len(q)) = q

\* The trees a file system can hold: an entry exists only in a directory.
WellFormed(t) == \A q \in TreeNodes : (q # RootPath /\ t[q] # "none") => t[Parent(q)] = "dir"

\* dir_exists(path): stat() succeeds and names a directory.
dir_exists(t, q) == t[q] = "dir"
\* file_exists(path) on the tree.
tree_file_exists(t, q) == t[q] = "file"

\* walk_directory(path): the entries below path in readdir order (here the
\* order of NameSeq); an entry whose stat() fails is skipped, the entries of a
\* sub-directory come before the sub-directory itself.
RECURSIVE WalkFrom(_, _, _)
WalkFrom(t, path, i) ==
  IF i > Len(NameSeq) \/ Len(path) >= TreeDepth THEN <<>>
  ELSE LET q == Append(path, NameSeq[i])
           here == CASE t[q] = "dir" -> WalkFrom(t, q, 1) \o <<[path |-> q, is_dir |-> TRUE]>>
                     [] t[q] = "file" -> <<[path |-> q, is_dir |-> FALSE]>>
                     [] OTHER -> <<>>
       IN here \o WalkFrom(t, path, i + 1)

walk_directory(t, path) == WalkFrom(t, path, 1)

\* catch (const std::exception& e) { debug::log(debug::ERROR) << e.what(); }
DtorCatchRethrow(l, what) == [l EXCEPT !.propagated = TRUE, !.what = what]
DtorCatch(l, what) == [l EXCEPT !.logged = TRUE, !.what = what]

\* Every well-formed tree of at most d levels below path: the node is nothing,
\* a file or a dangling link (and nothing is below it), or a directory whose
\* entries NameSeq[i..] are trees in turn.
RECURSIVE SubTrees(_, _)
RECURSIVE EntryTrees(_, _, _)
EntryTrees(path, d, i) ==
  IF i > Len(NameSeq) THEN {<<>>}
  ELSE {s @@ r : s \in SubTrees(Append(path, NameSeq[i]), d - 1),
                 r \in EntryTrees(path, d, i + 1)}
SubTrees(path, d) ==
  {[q \in NodesBelow(path, d) |-> IF q = path THEN k ELSE "none"] :
     k \in {"none", "file", "symlink", "dir"}}
  \cup (IF d = 0 THEN {}
        ELSE {(path :> "dir") @@ e : e \in EntryTrees(path, d, 1)})

TdInit ==
  \E t \in SubTrees(RootPath, TreeDepth) :
    /\ WellFormed(t)
    /\ fs = t
    /\ ino = <<>>
    /\ pc = "scope_end"
    /\ loc = [tree0 |-> t, files |-> <<>>, envfail |-> FALSE,
              logged |-> FALSE, propagated |-> FALSE, what |-> "none"]
    /\ rd = [st |-> "idle", inode |-> NoInode, seen |-> <<>>]

\* ~tmp_file_t: if (file_exists(m_path)) ... else if (dir_exists(m_path)) ...;
\* remove_dir starts with walk_directory(path), which throws when opendir fails.
DtorEnter ==
  /\ pc = "scope_end"
  /\ \E ok \in BOOLEAN :
       CASE tree_file_exists(fs, RootPath) ->
              /\ ok
              /\ pc' = "rm_file"
              /\ UNCHANGED loc
         [] dir_exists(fs, RootPath) ->
              IF ok
                THEN /\ loc' = [loc EXCEPT !.files = walk_directory(fs, RootPath)]
                     /\ pc' = "rm_entries"
                ELSE /\ loc' = DtorCatch([loc EXCEPT !.envfail = TRUE],
                                         "Unable to walk the directory.")
                     /\ pc' = "done"
         [] OTHER ->
              /\ ok
              /\ pc' = "done"
              /\ UNCHANGED loc
  /\ UNCHANGED <<fs, ino, rd>>

\* ~tmp_file_t: remove_file(m_path): unlink; a failure throws into the catch.
DtorRemoveFile ==
  /\ pc = "rm_file"
  /\ \E ok \in BOOLEAN :
       IF ok
         THEN /\ fs' = [fs EXCEPT ![RootPath] = "none"]
              /\ UNCHANGED loc
         ELSE /\ loc' = DtorCatch([loc EXCEPT !.envfail = TRUE], "Unable to remove file.")
              /\ UNCHANGED fs
  /\ pc' = "done"
  /\ UNCHANGED <<ino, rd>>

\* remove_dir: one round of the loop over the walked entries: rmdir for a
\* directory (fails unless it is empty), unlink for anything else.
DtorRemoveEntry ==
  /\ pc = "rm_entries"
  /\ loc.files # <<>>
  /\ LET e == Head(loc.files) IN
     \E ok \in BOOLEAN :
       IF ok /\ (e.is_dir => Children(fs, e.path) = {})
         THEN /\ fs' = [fs EXCEPT ![e.path] = "none"]
              /\ loc' = [loc EXCEPT !.files = Tail(@)]
              /\ pc' = "rm_entries"
         ELSE /\ loc' = DtorCatch([loc EXCEPT !.envfail = @ \/ ~ok],
                                  IF e.is_dir THEN "Unable to remove dir."
                                  ELSE "Unable to remove file.")
              /\ pc' = "done"
              /\ UNCHANGED fs
  /\ UNCHANGED <<ino, rd>>

\* remove_dir: remove_dir_internal(path) after the loop: rmdir of the path.
DtorRemoveRoot ==
  /\ pc = "rm_entries"
  /\ loc.files = <<>>
  /\ \E ok \in BOOLEAN :
       IF ok /\ Children(fs, RootPath) = {}
         THEN /\ fs' = [fs EXCEPT ![RootPath] = "none"]
              /\ UNCHANGED loc
         ELSE /\ loc' = DtorCatch([loc EXCEPT !.envfail = @ \/ ~ok], "Unable to remove dir.")
              /\ UNCHANGED fs
  /\ pc' = "done"
  /\ UNCHANGED <<ino, rd>>

TdNext ==
  \/ DtorEnter
  \/ DtorRemoveFile
  \/ DtorRemoveEntry
  \/ DtorRemoveRoot

SpecTmpDtor == TdInit /\ [][TdNext]_vars

Gone(t) == \A q \in TreeNodes : t[q] = "none"
HasSymlink(t) == \E q \in TreeNodes : t[q] = "symlink"

\* C4: when the destructor of a tmp_file_t has run, no error has left it; a
\* regular file or a directory (with all its content) at its path is gone, or
\* else a removal failed and the failure was logged; when every system call
\* succeeds and nothing but files and directories is below the path, it is gone.
C4_DtorRemovesOrLogs ==
  pc = "done" =>
    /\ ~loc.propagated
    /\ loc.tree0[RootPath] \in {"file", "dir"} => (Gone(fs) \/ loc.logged)
    /\ (loc.tree0[RootPath] \in {"file", "dir"} /\ ~loc.envfail /\ ~HasSymlink(loc.tree0))
         => (Gone(fs) /\ ~loc.logged)

\* C4 witness: a directory with a file in a sub-directory was removed whole.
C4_Witness ==
  /\ pc = "done"
  /\ loc.tree0[RootPath] = "dir"
  /\ \E q \in TreeNodes : Len(q) = 2 /\ loc.tree0[q] = "file"
  /\ Gone(fs)

\* C4 witness of the error path: a removal failed, was logged and swallowed.
C4_WitnessFailure ==
  /\ pc = "done"
  /\ loc.logged
  /\ ~Gone(fs)

(***************************************************************************)
(* The temporary paths of the wrappers: the preprocessed-output file of    *)
(* gcc_wrapper_t::preprocess_source (a tmp_file_t) and the response file   *)
(* of msvc_wrapper_t::run_for_miss (Windows branch).                       *)
(***************************************************************************)
PreprocessedFile == <<"bcache-id.i", 0>>
TempRspFile == <<"buildcache_pid.rsp", 0>>
TcPaths == {PreprocessedFile, TempRspFile}

\* sys::run / sys::run_with_prefix: the child was run and ended with return
\* code 0 ("ok") or another code ("failed"), or could not be run ("throws").
RunOutcomes == {"ok", "failed", "throws"}

TcInit ==
  \E op \in {"preprocess_source", "run_for_miss"},
     c \in BOOLEAN, o \in BOOLEAN, dm \in BOOLEAN, n \in 0 .. DataLen :
    /\ op = "run_for_miss" => (c /\ o /\ dm)
    /\ op = "preprocess_source" => n = 0
    /\ fs = [q \in TcPaths |-> "none"]
    /\ ino = <<>>
    /\ pc = IF op = "preprocess_source" THEN "gcc_check" ELSE "rfm_open"
    /\ loc = [op |-> op, has_c |-> c, has_o |-> o, direct_mode |-> dm,
              nargs |-> n, written |-> 0, created |-> FALSE,
              return_code |-> 0,
              rmfail |-> FALSE, logged |-> FALSE, err |-> "none"]
    /\ rd = [st |-> "idle", inode |-> NoInode, seen |-> <<>>]

\* gcc preprocess_source: the test for "-c" and "-o", then the tmp_file_t
\* preprocessed_file is constructed (a path, no file yet).
PpCheckArgs ==
  /\ pc = "gcc_check"
  /\ IF loc.has_c /\ loc.has_o
       THEN /\ pc' = "gcc_run"
            /\ UNCHANGED loc
       ELSE /\ pc' = "threw"
            /\ loc' = [loc EXCEPT !.err = "Unsupported complation command."]
  /\ UNCHANGED <<fs, ino, rd>>

\* gcc preprocess_source: sys::run(preprocessor_args); the preprocessor writes
\* its output to the temporary path; a return code # 0 throws.
PpRun(outcome) ==
  /\ pc = "gcc_run"
  /\ CASE outcome = "ok" ->
            /\ fs' = [fs EXCEPT ![PreprocessedFile] = "file"]
            /\ loc' = [loc EXCEPT !.created = TRUE]
            /\ pc' = "gcc_read"
       [] outcome = "failed" ->
            /\ \E made \in BOOLEAN :
                 /\ fs' = [fs EXCEPT ![PreprocessedFile] = IF made THEN "file" ELSE "none"]
                 /\ loc' = [loc EXCEPT !.created = made, !.return_code = 1,
                                       !.err = "Preprocessing command was unsuccessful."]
            /\ pc' = "gcc_dtor"
       [] outcome = "throws" ->
            /\ loc' = [loc EXCEPT !.err = "sys::run"]
            /\ pc' = "gcc_dtor"
            /\ UNCHANGED fs
  /\ UNCHANGED <<ino, rd>>

\* gcc preprocess_source: get_include_files (direct mode), then file::read of
\* the temporary file, which may throw.
PpRead ==
  /\ pc = "gcc_read"
  /\ \E ok \in BOOLEAN :
       loc' = [loc EXCEPT !.err = IF ok THEN "none" ELSE "Unable to read the file."]
  /\ pc' = "gcc_dtor"
  /\ UNCHANGED <<fs, ino, rd>>

\* gcc preprocess_source: ~tmp_file_t of preprocessed_file, on return and throw.
PpTmpDtor ==
  /\ pc = "gcc_dtor"
  /\ \E ok \in BOOLEAN :
       IF ok \/ fs[PreprocessedFile] = "none"
         THEN /\ fs' = [fs EXCEPT ![PreprocessedFile] = "none"]
              /\ UNCHANGED loc
         ELSE /\ loc' = [loc EXCEPT !.rmfail = TRUE, !.logged = TRUE]
              /\ UNCHANGED fs
  /\ pc' = IF loc.err = "none" THEN "returned" ELSE "threw"
  /\ UNCHANGED <<ino, rd>>

\* msvc run_for_miss: file::write(tempRspFileContents, tempRspFile): fopen.
RfmWriteOpen ==
  /\ pc = "rfm_open"
  /\ \E ok \in BOOLEAN :
       IF ok
         THEN /\ fs' = [fs EXCEPT ![TempRspFile] = "file"]
              /\ loc' = [loc EXCEPT !.created = TRUE]
              /\ pc' = "rfm_write"
         ELSE /\ loc' = [loc EXCEPT !.err = "Unable to open the file."]
              /\ pc' = "threw"
              /\ UNCHANGED fs
  /\ UNCHANGED <<ino, rd>>

\* msvc run_for_miss: file::write: the fwrite loop (one argument line at a
\* time), fclose, and the throw when bytes are left.
RfmWriteData ==
  /\ pc = "rfm_write"
  /\ \E ok \in BOOLEAN :
       IF loc.written < loc.nargs
         THEN IF ok
                THEN /\ loc' = [loc EXCEPT !.written = @ + 1]
                     /\ pc' = "rfm_write"
                ELSE /\ loc' = [loc EXCEPT !.err = "Unable to write the file."]
                     /\ pc' = "threw"
         ELSE /\ ok
              /\ pc' = "rfm_run"
              /\ UNCHANGED loc
  /\ UNCHANGED <<fs, ino, rd>>

\* msvc run_for_miss: sys::run_with_prefix(progArgs, false).
RfmRun(outcome) ==
  /\ pc = "rfm_run"
  /\ IF outcome = "throws"
       THEN /\ loc' = [loc EXCEPT !.err = "sys::run_with_prefix"]
            /\ pc' = "threw"
       ELSE /\ pc' = "rfm_remove"
            /\ loc' = [loc EXCEPT !.return_code = IF outcome = "ok" THEN 0 ELSE 1]
  /\ UNCHANGED <<fs, ino, rd>>

\* msvc run_for_miss: std::filesystem::remove(tempRspFile); return result.
RfmRemove ==
  /\ pc = "rfm_remove"
  /\ \E ok \in BOOLEAN :
       IF ok
         THEN /\ fs' = [fs EXCEPT ![TempRspFile] = "none"]
              /\ pc' = "returned"
              /\ UNCHANGED loc
         ELSE /\ loc' = [loc EXCEPT !.rmfail = TRUE, !.err = "filesystem_error"]
              /\ pc' = "threw"
              /\ UNCHANGED fs
  /\ UNCHANGED <<ino, rd>>

\* SIGINT ends the process inside the operation: no destructor runs.
TcKill ==
  /\ pc \notin {"returned", "threw", "killed"}
  /\ pc' = "killed"
  /\ UNCHANGED <<fs, ino, loc, rd>>

TcNext ==
  \/ TcKill
  \/ PpCheckArgs
  \/ \E outcome \in RunOutcomes : PpRun(outcome)
  \/ PpRead
  \/ PpTmpDtor
  \/ RfmWriteOpen
  \/ RfmWriteData
  \/ \E outcome \in RunOutcomes : RfmRun(outcome)
  \/ RfmRemove

SpecTempCleanup == TcInit /\ [][TcNext]_vars

\* C5: when the operation that created a temporary path has ended, by return
\* or by an error, the path is gone (unless the removal itself failed), for
\* gcc preprocess_source and for msvc run_for_miss alike.
C5_TempPathsGone ==
  (pc \in {"returned", "threw"} /\ ~loc.rmfail) => \A q \in TcPaths : fs[q] = "none"

\* The part of C5 that holds: the tmp_file_t of gcc preprocess_source.
C5_GccTempGone ==
  (pc \in {"returned", "threw"} /\ ~loc.rmfail) => fs[PreprocessedFile] = "none"


(***************************************************************************)
(* Strings of the wrappers.  A std::string is a sequence of characters,    *)
(* each character a one-character string; positions are 1-based and 0     *)
(* stands for std::string::npos.                                           *)
(***************************************************************************)
MaxArgs == 3

UpperChars == <<"A", "B", "C", "D", "E", "F", "G", "H", "I", "J", "K", "L", "M", "N", "O", "P", "Q", "R", "S", "T", "U", "V", "W", "X", "Y", "Z">>
LowerChars == <<"a", "b", "c", "d", "e", "f", "g", "h", "i", "j", "k", "l", "m", "n", "o", "p", "q", "r", "s", "t", "u", "v", "w", "x", "y", "z">>

lower_case_char(c) ==
  IF \E i \in 1..Len(UpperChars) : UpperChars[i] = c
  THEN LowerChars[CHOOSE i \in 1..Len(UpperChars) : UpperChars[i] = c]
  ELSE c

lower_case(str) == [i \in 1..Len(str) |-> lower_case_char(str[i])]

rfind(str, chars) ==
  LET hits == {i \in 1..Len(str) : str[i] \in chars}
  IN  IF hits = {} THEN 0 ELSE CHOOSE i \in hits : \A j \in hits : j <= i

substr(str, pos) == SubSeq(str, pos, Len(str))

\* The build the wrapper runs in: TRUE for the _WIN32 branches.
WIN32 == loc.win

PathSeparators == IF WIN32 THEN {"/", "\\"} ELSE {"/"}

get_last_path_separator_pos(path) == rfind(path, PathSeparators)

get_extension(path) ==
  LET pos == rfind(path, {"."})
      sep_pos == get_last_path_separator_pos(path)
  IN  IF pos # 0 /\ sep_pos # 0 /\ pos < sep_pos THEN <<>>
      ELSE IF pos # 0 THEN substr(path, pos) ELSE <<>>

change_extension(path, new_ext) ==
  LET pos == rfind(path, {"."})
      sep_pos == get_last_path_separator_pos(path)
  IN  IF pos # 0 /\ sep_pos # 0 /\ pos < sep_pos THEN path
      ELSE IF pos # 0 THEN SubSeq(path, 1, pos - 1) \o new_ext ELSE path

\* std::filesystem::path as the wrappers use it (filename, extension,
\* replace_extension, operator/ with a relative right side, generic_string).
path_filename(p) == substr(p, rfind(p, PathSeparators) + 1)

path_extension(p) ==
  LET f == path_filename(p)
      pos == rfind(f, {"."})
  IN  IF f \in {<<".">>, <<".", ".">>} \/ pos <= 1 THEN <<>> ELSE substr(f, pos)

path_replace_extension(p, ext) ==
  SubSeq(p, 1, Len(p) - Len(path_extension(p))) \o ext

path_append(p, q) ==
  IF p = <<>> \/ p[Len(p)] \in PathSeparators THEN p \o q
  ELSE p \o (IF WIN32 THEN <<"\\">> ELSE <<"/">>) \o q

generic_string(p) ==
  [i \in 1..Len(p) |-> IF WIN32 /\ p[i] = "\\" THEN "/" ELSE p[i]]

SeqsUpTo(S, n) == UNION {[1..k -> S] : k \in 0..n}

Ok(v) == [threw |-> FALSE, what |-> "", value |-> v]
Throw(msg) == [threw |-> TRUE, what |-> msg, value |-> <<>>]

SourceExtensions == {<<".", "c", "p", "p">>, <<".", "c", "c">>, <<".", "c", "x", "x">>, <<".", "c">>}

is_source_file(arg) == lower_case(get_extension(arg)) \in SourceExtensions

is_object_file(file_ext) == lower_case(file_ext) \in {<<".", "o", "b", "j">>, <<".", "o">>}

CoverageOptions == {<<"-", "f", "t", "e", "s", "t", "-", "c", "o", "v", "e", "r", "a", "g", "e">>, <<"-", "f", "p", "r", "o", "f", "i", "l", "e", "-", "a", "r", "c", "s">>, <<"-", "-", "c", "o", "v", "e", "r", "a", "g", "e">>}

has_coverage_output(args) == \E i \in 1..Len(args) : args[i] \in CoverageOptions

arg_starts_with(str, sub_str) ==
  /\ Len(sub_str) >= 1
  /\ Len(str) >= 1
  /\ str[1] \in {"/", "-"}
  /\ Len(str) >= Len(sub_str) + 1
  /\ SubSeq(str, 2, Len(sub_str) + 1) = sub_str

arg_equals(str, sub_str) ==
  /\ Len(sub_str) >= 1
  /\ Len(str) >= 1
  /\ str[1] \in {"/", "-"}
  /\ Len(str) >= Len(sub_str) + 1
  /\ substr(str, 2) = sub_str

drop_leading_colon(s) == IF Len(s) > 0 /\ s[1] = ":" THEN substr(s, 2) ELSE s


(***************************************************************************)
(* get_build_files of the gcc and the msvc wrapper.                        *)
(***************************************************************************)
File(path, required) == [path |-> path, required |-> required]

RECURSIVE GccScanOutput(_, _, _, _)
\* The loop of gcc get_build_files from index i on (1-based).
GccScanOutput(args, i, files, found) ==
  IF i > Len(args) THEN [threw |-> FALSE, files |-> files, found |-> found]
  ELSE IF args[i] = <<"-", "o">> /\ i + 1 <= Len(args)
       THEN IF found
            THEN [threw |-> TRUE, files |-> files, found |-> found]
            ELSE GccScanOutput(args, i + 1,
                               [k \in {"object"} |-> File(args[i + 1], TRUE)], TRUE)
       ELSE GccScanOutput(args, i + 1, files, found)

gcc_get_build_files(args) ==
  LET scan == GccScanOutput(args, 1, <<>>, FALSE)
  IN  IF scan.threw THEN Throw("Only a single target object file can be specified.")
      ELSE IF ~scan.found THEN Throw("Unable to get the target object file.")
      ELSE IF has_coverage_output(args)
           THEN Ok([k \in {"object", "coverage"} |->
                      IF k = "object" THEN scan.files["object"]
                      ELSE File(change_extension(scan.files["object"].path, <<".", "g", "c", "n", "o">>),
                                TRUE)])
           ELSE Ok(scan.files)

RECURSIVE ObjScan(_, _, _)
\* The loop of try_get_obj_filename from index i on.
ObjScan(args, i, object_filename) ==
  IF i > Len(args) THEN Ok(object_filename)
  ELSE LET arg == args[i]
           inputFile == args[Len(args)]
       IN  IF ~arg_starts_with(arg, <<"F", "o">>) THEN ObjScan(args, i + 1, object_filename)
           ELSE IF is_object_file(get_extension(arg))
                THEN IF object_filename # <<>>
                     THEN Throw("Only a single target object file can be specified.")
                     ELSE ObjScan(args, i + 1, drop_leading_colon(substr(arg, 4)))
           ELSE IF arg[Len(arg)] = "\\" /\ is_source_file(path_extension(inputFile))
                THEN IF object_filename # <<>>
                     THEN Throw("Only a single target object file can be specified.")
                     ELSE ObjScan(args, i + 1,
                            generic_string(path_append(substr(arg, 4),
                              path_filename(path_replace_extension(inputFile, <<".", "o", "b", "j">>)))))
           ELSE ObjScan(args, i + 1, object_filename)

try_get_obj_filename(args) == ObjScan(args, 1, <<>>)

get_obj_filename(args) ==
  LET r == try_get_obj_filename(args)
  IN  IF r.threw THEN r
      ELSE IF r.value = <<>> THEN Throw("Unable to get the target object file.")
      ELSE r

msvc_get_build_files(args) ==
  LET r == get_obj_filename(args)
  IN  IF r.threw THEN r ELSE Ok([k \in {"object"} |-> File(r.value, TRUE)])

GccBuildArgs == {<<"-", "c">>, <<"-", "o">>, <<"a", ".", "o">>, <<"d", ".", "x", "/", "b">>, <<"-", "-", "c", "o", "v", "e", "r", "a", "g", "e">>, <<"-", "f", "p", "r", "o", "f", "i", "l", "e", "-", "a", "r", "c", "s">>,
                 <<"-", "f", "t", "e", "s", "t", "-", "c", "o", "v", "e", "r", "a", "g", "e">>, <<"a", ".", "c">>}
MsvcBuildArgs == {<<"/", "c">>, <<"/", "F", "o", "a", ".", "o", "b", "j">>, <<"/", "F", "o", ":", "b", ".", "o">>, <<"-", "F", "o", "B", ".", "O", "B", "J">>, <<"/", "F", "o", "d", "\\">>, <<"/", "F", "o", ":", "d", "\\">>,
                  <<"a", ".", "c", "p", "p">>, <<"s", "\\", "b", ".", "C">>}

BfInit ==
  /\ fs = <<>>
  /\ ino = <<>>
  /\ rd = <<>>
  /\ pc = "start"
  /\ \E w \in {"gcc", "msvc"}, win \in BOOLEAN :
       \E rest \in SeqsUpTo(IF w = "gcc" THEN GccBuildArgs ELSE MsvcBuildArgs, MaxArgs) :
         loc = [wrapper |-> w, win |-> win,
                m_args |-> <<IF w = "gcc" THEN <<"g", "c", "c">> ELSE <<"c", "l">>>> \o rest,
                result |-> Ok(<<>>)]

GccGetBuildFiles ==
  /\ pc = "start"
  /\ loc.wrapper = "gcc"
  /\ loc' = [loc EXCEPT !.result = gcc_get_build_files(loc.m_args)]
  /\ pc' = "done"
  /\ UNCHANGED <<fs, ino, rd>>

MsvcGetBuildFiles ==
  /\ pc = "start"
  /\ loc.wrapper = "msvc"
  /\ loc' = [loc EXCEPT !.result = msvc_get_build_files(loc.m_args)]
  /\ pc' = "done"
  /\ UNCHANGED <<fs, ino, rd>>

BfNext == GccGetBuildFiles \/ MsvcGetBuildFiles

SpecBuildFiles == BfInit /\ [][BfNext]_vars

RequiredEntries(files) == {k \in DOMAIN files : files[k].required}

\* C6: whenever get_build_files returns a map (gcc or msvc wrapper, coverage
\* options included), exactly one entry of the map is marked required.
C6_ExactlyOneRequired ==
  (pc = "done" /\ ~loc.result.threw) => Cardinality(RequiredEntries(loc.result.value)) = 1

\* The same for the msvc wrapper and for gcc without a coverage option.
C6_OneRequiredWithoutCoverage ==
  (pc = "done" /\ ~loc.result.threw /\ ~has_coverage_output(loc.m_args))
    => RequiredEntries(loc.result.value) = {"object"}


(***************************************************************************)
(* get_relevant_arguments of the gcc and the msvc wrapper, applied to two  *)
(* argument lists written from the same template with different compiler   *)
(* directories, include directories, macros, source paths and output       *)
(* paths.                                                                  *)
(***************************************************************************)
get_file_part(path, include_ext) ==
  LET pos == get_last_path_separator_pos(path)
      file_name == IF pos # 0 THEN substr(path, pos + 1) ELSE path
      ext_pos == rfind(file_name, {"."})
  IN  IF include_ext \/ ext_pos = 0 \/ ext_pos = 1 THEN file_name
      ELSE SubSeq(file_name, 1, ext_pos - 1)

is_arg_plus_file_name(arg) == arg \in {<<"-", "I">>, <<"-", "M", "F">>, <<"-", "M", "T">>, <<"-", "M", "Q">>, <<"-", "o">>}

is_arg_pair(arg) == is_arg_plus_file_name(arg)

first_chars(arg, n) == SubSeq(arg, 1, IF Len(arg) < n THEN Len(arg) ELSE n)

gcc_drops_options(arg) == first_chars(arg, 1) = <<"-">>

gcc_is_unwanted_arg(arg) ==
  \/ first_chars(arg, 2) \in {<<"-", "I">>, <<"-", "D">>, <<"-", "M">>}
  \/ first_chars(arg, 10) = <<"-", "-", "s", "y", "s", "r", "o", "o", "t", "=">>
  \/ is_source_file(arg)

RECURSIVE GccFilter(_, _, _, _)
\* The loop of gcc get_relevant_arguments from index i on.
GccFilter(args, i, skip_next_arg, filtered_args) ==
  IF i > Len(args) THEN filtered_args
  ELSE IF skip_next_arg THEN GccFilter(args, i + 1, FALSE, filtered_args)
  ELSE IF is_arg_plus_file_name(args[i]) THEN GccFilter(args, i + 1, TRUE, filtered_args)
  ELSE IF ~gcc_is_unwanted_arg(args[i])
       THEN GccFilter(args, i + 1, FALSE, Append(filtered_args, args[i]))
  ELSE GccFilter(args, i + 1, FALSE, filtered_args)

\* get_file_part is called with its default include_ext (true).
gcc_get_relevant_arguments(args) ==
  GccFilter(args, 1, TRUE, <<get_file_part(args[1], TRUE)>>)

msvc_is_unwanted_arg(arg) ==
  \/ arg_equals(first_chars(arg, 2), <<"F">>) /\ ~arg_equals(arg, <<"F">>)
  \/ arg_equals(first_chars(arg, 2), <<"I">>)
  \/ arg_equals(first_chars(arg, 2), <<"D">>)
  \/ is_source_file(arg)

RECURSIVE MsvcFilter(_, _, _, _)
\* The loop of msvc get_relevant_arguments from index i on.
MsvcFilter(args, i, skip_next_arg, filtered_args) ==
  IF i > Len(args) THEN filtered_args
  ELSE IF skip_next_arg THEN MsvcFilter(args, i + 1, FALSE, filtered_args)
  ELSE IF ~msvc_is_unwanted_arg(args[i])
       THEN MsvcFilter(args, i + 1, FALSE, Append(filtered_args, args[i]))
  ELSE MsvcFilter(args, i + 1, FALSE, filtered_args)

msvc_get_relevant_arguments(args) ==
  MsvcFilter(args, 1, TRUE, <<get_file_part(args[1], TRUE)>>)

\* What an argument list is written from: options that are kept as they are,
\* and the parts in which the two lists may differ.
TemplateItems ==
  {"compile", "optimize", "include_joined", "include_separated",
   "define_joined", "define_separated", "source", "output"}

GccItem(item, v) ==
  CASE item = "compile" -> <<<<"-", "c">>>>
    [] item = "optimize" -> <<<<"-", "O", "2">>>>
    [] item = "include_joined" -> <<IF v = 1 THEN <<"-", "I", "p">> ELSE <<"-", "I", "q", "/", "r">>>>
    [] item = "include_separated" -> <<<<"-", "I">>, IF v = 1 THEN <<"p">> ELSE <<"q", "/", "r">>>>
    [] item = "define_joined" -> <<IF v = 1 THEN <<"-", "D", "X">> ELSE <<"-", "D", "Y", "=", "1">>>>
    [] item = "define_separated" -> <<<<"-", "D">>, IF v = 1 THEN <<"X">> ELSE <<"Y", "=", "1">>>>
    [] item = "source" -> <<IF v = 1 THEN <<"s", "/", "a", ".", "c">> ELSE <<"t", "/", "b", ".", "C", "P", "P">>>>
    [] item = "output" -> <<<<"-", "o">>, IF v = 1 THEN <<"s", "/", "a", ".", "o">> ELSE <<"b", ".", "o">>>>

MsvcItem(item, v) ==
  CASE item = "compile" -> <<<<"/", "c">>>>
    [] item = "optimize" -> <<<<"/", "O", "2">>>>
    [] item = "include_joined" -> <<IF v = 1 THEN <<"/", "I", "p">> ELSE <<"-", "I", "q", "/", "r">>>>
    [] item = "include_separated" -> <<<<"/", "I">>, IF v = 1 THEN <<"p">> ELSE <<"q", "/", "r">>>>
    [] item = "define_joined" -> <<IF v = 1 THEN <<"/", "D", "X">> ELSE <<"/", "D", "Y", "=", "1">>>>
    [] item = "define_separated" -> <<<<"/", "D">>, IF v = 1 THEN <<"X">> ELSE <<"Y", "=", "1">>>>
    [] item = "source" -> <<IF v = 1 THEN <<"s", "/", "a", ".", "c">> ELSE <<"t", "/", "b", ".", "C", "P", "P">>>>
    [] item = "output" -> <<IF v = 1 THEN <<"/", "F", "o", "s", "/", "a", ".", "o", "b", "j">> ELSE <<"/", "F", "o", ":", "b", ".", "o", "b", "j">>>>

RECURSIVE Render(_, _, _)
Render(wrapper, template, v) ==
  IF template = <<>> THEN <<>>
  ELSE (IF wrapper = "gcc" THEN GccItem(Head(template), v)
        ELSE MsvcItem(Head(template), v)) \o Render(wrapper, Tail(template), v)

CompilerPath(wrapper, v) ==
  IF wrapper = "gcc" THEN (IF v = 1 THEN <<"/", "u", "s", "r", "/", "b", "i", "n", "/", "g", "c", "c">> ELSE <<"/", "o", "p", "t", "/", "x", ".", "y", "/", "g", "c", "c">>)
  ELSE (IF v = 1 THEN <<"c", ":", "/", "v", "s", "/", "c", "l", ".", "e", "x", "e">> ELSE <<"d", ":", "/", "b", ".", "c", "/", "c", "l", ".", "e", "x", "e">>)

RaInit ==
  /\ fs = <<>>
  /\ ino = <<>>
  /\ rd = <<>>
  /\ pc = "start"
  /\ \E w \in {"gcc", "msvc"}, win \in BOOLEAN, t \in SeqsUpTo(TemplateItems, MaxArgs) :
       loc = [wrapper |-> w, win |-> win, template |-> t,
              m_args |-> <<CompilerPath(w, 1)>> \o Render(w, t, 1),
              other_args |-> <<CompilerPath(w, 2)>> \o Render(w, t, 2),
              result |-> <<>>, other_result |-> <<>>]

GccGetRelevantArguments ==
  /\ pc = "start"
  /\ loc.wrapper = "gcc"
  /\ loc' = [loc EXCEPT !.result = gcc_get_relevant_arguments(loc.m_args),
                        !.other_result = gcc_get_relevant_arguments(loc.other_args)]
  /\ pc' = "done"
  /\ UNCHANGED <<fs, ino, rd>>

MsvcGetRelevantArguments ==
  /\ pc = "start"
  /\ loc.wrapper = "msvc"
  /\ loc' = [loc EXCEPT !.result = msvc_get_relevant_arguments(loc.m_args),
                        !.other_result = msvc_get_relevant_arguments(loc.other_args)]
  /\ pc' = "done"
  /\ UNCHANGED <<fs, ino, rd>>

RaNext == GccGetRelevantArguments \/ MsvcGetRelevantArguments

SpecRelevantArgs == RaInit /\ [][RaNext]_vars

\* C7: two argument lists that differ only in the compiler directory, the
\* include directories, the macro definitions, the source path and the output
\* path (joined and separated forms) have the same relevant arguments.
C7_SameRelevantArguments ==
  pc = "done" => loc.result = loc.other_result

\* The same with the joined forms -Idir, -DX, /Idir, /DX only, and for gcc
\* also with the separated -I dir.
C7_SameForJoinedForms ==
  (pc = "done" /\ \A i \in 1..Len(loc.template) :
                    /\ loc.template[i] # "define_separated"
                    /\ loc.wrapper = "msvc" => loc.template[i] # "include_separated")
    => loc.result = loc.other_result


(***************************************************************************)
(* resolve_args of the gcc wrapper: parse_args and parse_response_file     *)
(* call each other; the calls in progress are the frames of loc.stack.     *)
(* A response file is the sequence of its lines.                           *)
(***************************************************************************)
MaxStack == 6

RECURSIVE SplitFrom(_, _, _)
\* The arguments of a line: the runs of characters between blanks.
SplitFrom(line, i, word) ==
  IF i > Len(line) THEN (IF word = <<>> THEN <<>> ELSE <<word>>)
  ELSE IF line[i] = " "
       THEN (IF word = <<>> THEN <<>> ELSE <<word>>) \o SplitFrom(line, i + 1, <<>>)
       ELSE SplitFrom(line, i + 1, Append(word, line[i]))

split_args(line) == SplitFrom(line, 1, <<>>)

is_response_arg(arg) == first_chars(arg, 1) = <<"@">>

Closed == [open |-> FALSE, lines |-> <<>>]
Opened(lines) == [open |-> TRUE, lines |-> lines]

\* std::ifstream response_file(filename): the file as the wrapper finds it.
response_file(filename) == IF filename \in DOMAIN fs THEN fs[filename] ELSE Closed

UnopenedDropped(filename) == <<>>

\* The else branch of parse_response_file: the argument is left as it is.
Unopened(filename) == <<<<"@">> \o filename>>

ResponseFileContents ==
  {Closed, Opened(<<>>), Opened(<<<<"-", "x">>>>), Opened(<<<<"@", "g", " ", "-", "y">>>>), Opened(<<<<"-", "x">>, <<"@", "h">>>>),
   Opened(<<<<"@", "f">>>>), Opened(<<<<>>, <<" ", " ", "-", "z", " ", " ", " ", "@", "g", " ">>>>)}

ResolveArgs == {<<"-", "c">>, <<"@", "f">>, <<"@", "h">>}

ArgsFrame(args) == [kind |-> "parse_args", todo |-> args, parsed |-> <<>>]
FileFrame(lines) == [kind |-> "parse_response_file", todo |-> lines, parsed |-> <<>>]

Top == loc.stack[Len(loc.stack)]
Push(frame) == Append(loc.stack, frame)
ReplaceTop(frame) == [loc.stack EXCEPT ![Len(loc.stack)] = frame]
\* Return to the caller: its parsed list gets the value, its current element is done.
ReturnTo(caller, value) ==
  [caller EXCEPT !.parsed = caller.parsed \o value,
                 !.todo = IF caller.kind = "parse_args" THEN Tail(caller.todo)
                          ELSE caller.todo]

RsInit ==
  /\ ino = <<>>
  /\ rd = <<>>
  /\ pc = "start"
  /\ fs \in [{<<"f">>, <<"g">>} -> ResponseFileContents]
  /\ \E args \in SeqsUpTo(ResolveArgs, MaxArgs) :
       loc = [given |-> <<<<"g", "c", "c">>>> \o args, m_unresolved_args |-> <<<<"g", "c", "c">>>> \o args,
              m_args |-> <<<<"g", "c", "c">>>> \o args, first_m_args |-> <<>>, calls |-> 0,
              stack |-> <<>>]

resolve_args ==
  /\ pc = "start"
  /\ loc' = [loc EXCEPT !.stack = <<ArgsFrame(loc.m_unresolved_args)>>, !.calls = 1]
  /\ pc' = "running"
  /\ UNCHANGED <<fs, ino, rd>>

resolve_args_again ==
  /\ pc = "returned"
  /\ loc.calls = 1
  /\ loc' = [loc EXCEPT !.stack = <<ArgsFrame(loc.m_unresolved_args)>>, !.calls = 2,
                        !.first_m_args = loc.m_args]
  /\ pc' = "running"
  /\ UNCHANGED <<fs, ino, rd>>

ParsePlainArg ==
  /\ pc = "running"
  /\ Top.kind = "parse_args"
  /\ Top.todo # <<>>
  /\ ~is_response_arg(Head(Top.todo))
  /\ loc' = [loc EXCEPT !.stack = ReplaceTop(ReturnTo(Top, <<Head(Top.todo)>>))]
  /\ UNCHANGED <<fs, ino, pc, rd>>

ParseResponseFileOpened ==
  /\ pc = "running"
  /\ Top.kind = "parse_args"
  /\ Top.todo # <<>>
  /\ is_response_arg(Head(Top.todo))
  /\ response_file(substr(Head(Top.todo), 2)).open
  /\ Len(loc.stack) < MaxStack
  /\ loc' = [loc EXCEPT !.stack = Push(FileFrame(response_file(substr(Head(Top.todo), 2)).lines))]
  /\ UNCHANGED <<fs, ino, pc, rd>>

ParseResponseFileUnopened ==
  /\ pc = "running"
  /\ Top.kind = "parse_args"
  /\ Top.todo # <<>>
  /\ is_response_arg(Head(Top.todo))
  /\ ~response_file(substr(Head(Top.todo), 2)).open
  /\ loc' = [loc EXCEPT !.stack = ReplaceTop(ReturnTo(Top, Unopened(substr(Head(Top.todo), 2))))]
  /\ UNCHANGED <<fs, ino, pc, rd>>

GetLine ==
  /\ pc = "running"
  /\ Top.kind = "parse_response_file"
  /\ Top.todo # <<>>
  /\ Len(loc.stack) < MaxStack
  /\ loc' = [loc EXCEPT !.stack = Append(ReplaceTop([Top EXCEPT !.todo = Tail(Top.todo)]),
                                         ArgsFrame(split_args(Head(Top.todo))))]
  /\ UNCHANGED <<fs, ino, pc, rd>>

\* The calls nest deeper than the stack of the process allows.
StackExhausted ==
  /\ pc = "running"
  /\ Top.todo # <<>>
  /\ Len(loc.stack) >= MaxStack
  /\ \/ Top.kind = "parse_response_file"
     \/ /\ is_response_arg(Head(Top.todo))
        /\ response_file(substr(Head(Top.todo), 2)).open
  /\ pc' = "overflow"
  /\ UNCHANGED <<fs, ino, loc, rd>>

Return ==
  /\ pc = "running"
  /\ Top.todo = <<>>
  /\ Len(loc.stack) > 1
  /\ loc' = [loc EXCEPT !.stack =
               [SubSeq(loc.stack, 1, Len(loc.stack) - 1) EXCEPT ![Len(loc.stack) - 1] =
                  ReturnTo(loc.stack[Len(loc.stack) - 1], Top.parsed)]]
  /\ UNCHANGED <<fs, ino, pc, rd>>

ResolveArgsReturn ==
  /\ pc = "running"
  /\ Top.todo = <<>>
  /\ Len(loc.stack) = 1
  /\ loc' = [loc EXCEPT !.stack = <<>>, !.m_args = Top.parsed]
  /\ pc' = "returned"
  /\ UNCHANGED <<fs, ino, rd>>

RsNext ==
  \/ resolve_args
  \/ resolve_args_again
  \/ ParsePlainArg
  \/ ParseResponseFileOpened
  \/ ParseResponseFileUnopened
  \/ GetLine
  \/ StackExhausted
  \/ Return
  \/ ResolveArgsReturn

SpecResolveArgs == RsInit /\ [][RsNext]_vars

RECURSIVE Expanded(_)
RECURSIVE ExpandedLines(_)
\* What the claim says m_args is: every @f of an openable file replaced, in
\* place, by the expanded arguments of the lines of f.
Expanded(args) ==
  IF args = <<>> THEN <<>>
  ELSE LET arg == Head(args)
           file == response_file(substr(arg, 2))
       IN  (IF is_response_arg(arg) /\ file.open THEN ExpandedLines(file.lines)
            ELSE <<arg>>) \o Expanded(Tail(args))

ExpandedLines(lines) ==
  IF lines = <<>> THEN <<>>
  ELSE Expanded(split_args(Head(lines))) \o ExpandedLines(Tail(lines))

\* C8: after resolve_args, m_args is m_unresolved_args with each @f of an
\* openable file replaced in place by the arguments of its lines (nested @
\* expanded), an unopenable @f kept as it is; m_unresolved_args is unchanged and
\* a second call gives the same m_args.
C8_ResolveArgsExpands ==
  pc = "returned" =>
    /\ loc.m_args = Expanded(loc.m_unresolved_args)
    /\ loc.m_unresolved_args = loc.given
    /\ loc.calls = 2 => loc.m_args = loc.first_m_args

\* A second call has returned for @f naming a file that nests @g, with an
\* unopenable @h left in the result.
C8_Witness ==
  /\ pc = "returned"
  /\ loc.calls = 2
  /\ \E i \in 1..Len(loc.m_unresolved_args) : loc.m_unresolved_args[i] = <<"@", "f">>
  /\ fs[<<"f">>] = Opened(<<<<"@", "g", " ", "-", "y">>>>)
  /\ fs[<<"g">>] = Opened(<<<<"-", "x">>, <<"@", "h">>>>)
  /\ \E i \in 1..Len(loc.m_args) : loc.m_args[i] = <<"@", "h">>
  /\ \E i \in 1..Len(loc.m_args) : loc.m_args[i] = <<"-", "y">>

\* resolve_args under the scheduling of a single thread: a call in progress
\* goes on as long as it can.
SpecResolveArgsLive == RsInit /\ [][RsNext]_vars /\ WF_vars(RsNext)

\* C22: resolve_args terminates for every set of response files, a file that
\* names itself and files that name each other in a cycle included: every
\* call returns.
C22_ResolveArgsTerminates == <>(pc = "returned")

\* The response files a response file names.
NamedBy(filename) ==
  LET file == response_file(filename)
  IN  IF ~file.open THEN {}
      ELSE UNION {{substr(arg, 2) : arg \in {split_args(file.lines[i])[k] :
                                               k \in {n \in 1..Len(split_args(file.lines[i])) :
                                                         is_response_arg(split_args(file.lines[i])[n])}}} :
                  i \in 1..Len(file.lines)}

NamedInCycle ==
  \/ <<"f">> \in NamedBy(<<"f">>)
  \/ <<"g">> \in NamedBy(<<"g">>)
  \/ <<"g">> \in NamedBy(<<"f">>) /\ <<"f">> \in NamedBy(<<"g">>)

\* Response files that do not name each other in a cycle: the calls never nest
\* deeper than the files do, and the stack is not exhausted.
C22_NoCycleNoOverflow == ~NamedInCycle => pc # "overflow"


(***************************************************************************)
(* resolve_path (the realpath branch) over a small directory tree, and     *)
(* get_input_files of the gcc and the msvc wrapper.                        *)
(***************************************************************************)
RECURSIVE Split(_, _, _, _)
\* The parts of str between the delimiter characters, empty parts left out.
Split(str, delim, i, part) ==
  LET delims == {j \in i..Len(str) : str[j] = delim}
      next == IF delims = {} THEN Len(str) + 1
              ELSE CHOOSE j \in delims : \A k \in delims : j <= k
      whole == part \o SubSeq(str, i, next - 1)
  IN  (IF whole = <<>> THEN <<>> ELSE <<whole>>)
        \o (IF next > Len(str) THEN <<>> ELSE Split(str, delim, next + 1, <<>>))

\* A backslash separates components too in the _WIN32 build.
Components(path) == Split(generic_string(path), "/", 1, <<>>)

RECURSIVE AbsPath(_)
AbsPath(comps) ==
  IF comps = <<>> THEN <<>> ELSE <<"/">> \o Head(comps) \o AbsPath(Tail(comps))

\* The working directory of the wrapper process.
WorkDir == <<"/", "w">>

\* The symbolic link of the source tree: /w/l.c -> /w/a.c.
LinkPath == <<"/", "w", "/", "l", ".", "c">>
LinkTarget == <<"/", "w", "/", "a", ".", "c">>
SourceLink == [path |-> LinkPath, target |-> LinkTarget]

is_file(comps) == AbsPath(comps) \in fs.files

is_dir(comps) ==
  \E f \in fs.files :
    /\ Len(Components(f)) > Len(comps)
    /\ SubSeq(Components(f), 1, Len(comps)) = comps

is_link(comps) == \E l \in fs.links : l.path = AbsPath(comps)

link_target(comps) == (CHOOSE l \in fs.links : l.path = AbsPath(comps)).target

RECURSIVE RealWalk(_, _)
\* realpath: cur is the resolved directory so far, comps what is left of the path.
RealWalk(comps, cur) ==
  IF comps = <<>> THEN Ok(IF cur = <<>> THEN <<"/">> ELSE AbsPath(cur))
  ELSE LET c == Head(comps)
           next == Append(cur, c)
       IN  IF c = <<".">> THEN RealWalk(Tail(comps), cur)
           ELSE IF c = <<".", ".">>
                THEN RealWalk(Tail(comps), SubSeq(cur, 1, Len(cur) - 1))
           ELSE IF is_link(next) THEN RealWalk(Components(link_target(next)) \o Tail(comps), <<>>)
           ELSE IF is_file(next)
                THEN (IF Tail(comps) = <<>> THEN Ok(AbsPath(next)) ELSE Throw("ENOTDIR"))
           ELSE IF is_dir(next) THEN RealWalk(Tail(comps), next)
           ELSE Throw("ENOENT")

realpath(path) ==
  IF path = <<>> THEN Throw("ENOENT")
  ELSE RealWalk(Components(path), IF path[1] = "/" THEN <<>> ELSE Components(WorkDir))

resolve_path(path) ==
  LET char_ptr == realpath(path)
  IN  IF ~char_ptr.threw THEN char_ptr.value ELSE <<>>

RECURSIVE GccInputs(_, _, _, _)
\* The loop of gcc get_input_files from index i on.
GccInputs(args, i, skip_next_arg, input_files) ==
  IF i > Len(args) THEN input_files
  ELSE IF skip_next_arg THEN GccInputs(args, i + 1, FALSE, input_files)
  ELSE IF is_arg_pair(args[i]) THEN GccInputs(args, i + 1, TRUE, input_files)
  ELSE IF is_source_file(args[i])
       THEN GccInputs(args, i + 1, FALSE, Append(input_files, resolve_path(args[i])))
  ELSE GccInputs(args, i + 1, FALSE, input_files)

gcc_get_input_files(args) == GccInputs(args, 1, TRUE, <<>>)

RECURSIVE MsvcInputs(_, _, _)
\* The loop of msvc get_input_files from index i on.
MsvcInputs(args, i, input_files) ==
  IF i > Len(args) THEN input_files
  ELSE IF is_source_file(args[i])
       THEN MsvcInputs(args, i + 1, Append(input_files, resolve_path(args[i])))
  ELSE MsvcInputs(args, i + 1, input_files)

msvc_get_input_files(args) == MsvcInputs(args, 1, <<>>)

SourceTree == {<<"/", "w", "/", "a", ".", "c">>, <<"/", "w", "/", "s", "/", "b", ".", "c", "p", "p">>, <<"/", "w", "/", "s", "/", "k", ".", "h">>}

GccInputArgs == {<<"-", "c">>, <<"-", "o">>, <<"a", ".", "c">>, <<"s", "/", ".", ".", "/", "a", ".", "c">>, <<".", "/", "s", "/", "b", ".", "c", "p", "p">>, <<"l", ".", "c">>, <<"/", "w", "/", "s", "/", "k", ".", "h">>}
MsvcInputArgs == {<<"/", "c">>, <<"/", "F", "o", "x", ".", "o", "b", "j">>, <<"a", ".", "c">>, <<"s", "/", ".", ".", "/", "a", ".", "c">>, <<".", "/", "s", "/", "b", ".", "c", "p", "p">>, <<"l", ".", "c">>, <<"/", "w", "/", "s", "/", "k", ".", "h">>}

IfInit ==
  /\ ino = <<>>
  /\ rd = <<>>
  /\ pc = "start"
  /\ \E files \in SUBSET SourceTree, linked \in BOOLEAN :
       fs = [files |-> files, links |-> IF linked THEN {SourceLink} ELSE {}]
  /\ \E w \in {"gcc", "msvc"} :
       \E rest \in SeqsUpTo(IF w = "gcc" THEN GccInputArgs ELSE MsvcInputArgs, MaxArgs) :
         loc = [wrapper |-> w, win |-> FALSE,
                m_args |-> <<IF w = "gcc" THEN <<"g", "c", "c">> ELSE <<"c", "l">>>> \o rest,
                result |-> <<>>]

GccGetInputFiles ==
  /\ pc = "start"
  /\ loc.wrapper = "gcc"
  /\ loc' = [loc EXCEPT !.result = gcc_get_input_files(loc.m_args)]
  /\ pc' = "done"
  /\ UNCHANGED <<fs, ino, rd>>

MsvcGetInputFiles ==
  /\ pc = "start"
  /\ loc.wrapper = "msvc"
  /\ loc' = [loc EXCEPT !.result = msvc_get_input_files(loc.m_args)]
  /\ pc' = "done"
  /\ UNCHANGED <<fs, ino, rd>>

IfNext == GccGetInputFiles \/ MsvcGetInputFiles

SpecInputFiles == IfInit /\ [][IfNext]_vars

\* An absolute path without ".", ".." or empty components that is no link.
IsCanonical(path) ==
  /\ path # <<>>
  /\ path[1] = "/"
  /\ AbsPath(Components(path)) = path
  /\ \A i \in 1..Len(Components(path)) : Components(path)[i] \notin {<<".">>, <<".", ".">>}
  /\ ~\E l \in fs.links : l.path = path

\* C9: every element of the list get_input_files returns is a non-empty,
\* absolute, canonicalized path, also when a source argument names a file that
\* cannot be resolved.
C9_InputFilesCanonical ==
  pc = "done" => \A i \in 1..Len(loc.result) : IsCanonical(loc.result[i])

\* Every element is a canonical path or, for a source that cannot be resolved,
\* the empty string.
C9_CanonicalOrEmpty ==
  pc = "done" =>
    \A i \in 1..Len(loc.result) : loc.result[i] = <<>> \/ IsCanonical(loc.result[i])


(***************************************************************************)
(* get_include_files of the gcc wrapper: the include files reported in the *)
(* standard error output of the preprocessor run.                          *)
(***************************************************************************)
MaxLines == 3

string_list(str, delim) == Split(str, delim, 1, <<>>)

\* The characters \s of the regular expression matches.
WhiteSpace == {" ", "\t", "\n", "\r", "\f"}

RECURSIVE CountLeading(_, _, _)
\* How many characters of str from position i on are in chars, without a gap.
CountLeading(str, chars, i) ==
  IF i <= Len(str) /\ str[i] \in chars THEN 1 + CountLeading(str, chars, i + 1) ELSE 0

LastNonSpace(str) ==
  LET hits == {i \in 1..Len(str) : str[i] \notin WhiteSpace}
  IN  IF hits = {} THEN 0 ELSE CHOOSE i \in hits : \A j \in hits : j <= i

\* std::regex_match(line, match, incpath_re) with incpath_re \.+\s+(.*[^\s])\s* :
\* periods, white space, then the captured text up to the last non-space.
incpath_match(line) ==
  LET periods == CountLeading(line, {"."}, 1)
      spaces == CountLeading(line, WhiteSpace, periods + 1)
      last == LastNonSpace(line)
  IN  IF periods >= 1 /\ spaces >= 1 /\ last > periods + spaces
      THEN [matched |-> TRUE, include |-> SubSeq(line, periods + spaces + 1, last)]
      ELSE [matched |-> FALSE, include |-> <<>>]

\* The order of std::set<std::string>: byte by byte.
AsciiOrder == <<" ", "-", ".", "/", "0", "1", "2", "3", "4", "5", "6", "7", "8", "9", ":", "=", "@", "A", "B", "C", "D", "E", "F", "G", "H", "I", "J", "K", "L", "M", "N", "O", "P", "Q", "R", "S", "T", "U", "V", "W", "X", "Y", "Z", "\\", "_", "a", "b", "c", "d", "e", "f", "g", "h", "i", "j", "k", "l", "m", "n", "o", "p", "q", "r", "s", "t", "u", "v", "w", "x", "y", "z">>

CharRank(c) == CHOOSE i \in 1..Len(AsciiOrder) : AsciiOrder[i] = c

RECURSIVE StringLess(_, _)
StringLess(a, b) ==
  IF b = <<>> THEN FALSE
  ELSE IF a = <<>> THEN TRUE
  ELSE IF Head(a) # Head(b) THEN CharRank(Head(a)) < CharRank(Head(b))
  ELSE StringLess(Tail(a), Tail(b))

RECURSIVE InOrder(_)
\* The elements of a std::set<std::string> as its iteration gives them.
InOrder(set) ==
  IF set = {} THEN <<>>
  ELSE LET first == CHOOSE x \in set : \A y \in set : x = y \/ StringLess(x, y)
       IN  <<first>> \o InOrder(set \ {first})

get_include_files(std_err) ==
  LET lines == string_list(std_err, "\n")
      includes == {resolve_path(incpath_match(lines[i]).include) :
                     i \in {j \in 1..Len(lines) : incpath_match(lines[j]).matched}}
  IN  InOrder(includes)

IncludeTree == {<<"/", "w", "/", "a", ".", "h">>, <<"/", "w", "/", "s", "/", "k", ".", "h">>}

StdErrLines ==
  {<<".", " ", "a", ".", "h">>, <<".", ".", " ", "a", ".", "h">>, <<".", ".", ".", " ", " ", "s", "/", ".", ".", "/", "a", ".", "h", " ", " ">>, <<".", " ", "s", "/", "k", ".", "h">>, <<".", ".", " ", "g", "o", "n", "e", ".", "h">>, <<"a", ".", "h">>, <<".", "a", ".", "h">>}

RECURSIVE StdErr(_)
\* The output that has the given lines.
StdErr(lines) == IF lines = <<>> THEN <<>> ELSE Head(lines) \o <<"\n">> \o StdErr(Tail(lines))

GiInit ==
  /\ ino = <<>>
  /\ rd = <<>>
  /\ pc = "start"
  /\ \E files \in SUBSET IncludeTree : fs = [files |-> files, links |-> {}]
  /\ \E lines \in SeqsUpTo(StdErrLines, MaxLines) :
       loc = [win |-> FALSE, lines |-> lines, std_err |-> StdErr(lines), result |-> <<>>]

GetIncludeFiles ==
  /\ pc = "start"
  /\ loc' = [loc EXCEPT !.result = get_include_files(loc.std_err)]
  /\ pc' = "done"
  /\ UNCHANGED <<fs, ino, rd>>

GiNext == GetIncludeFiles

SpecIncludeFiles == GiInit /\ [][GiNext]_vars

Reversed(lines) == [i \in 1..Len(lines) |-> lines[Len(lines) + 1 - i]]

\* Every report at nesting depth one.
Flattened(lines) ==
  [i \in 1..Len(lines) |->
     IF incpath_match(lines[i]).matched THEN <<".", " ">> \o incpath_match(lines[i]).include
     ELSE lines[i]]

PeriodLines(lines) == SelectSeq(lines, LAMBDA l : l # <<>> /\ l[1] = ".")

Reported(lines) ==
  {incpath_match(lines[i]).include : i \in {j \in 1..Len(lines) : incpath_match(lines[j]).matched}}

NoDuplicates(list) == \A i, j \in 1..Len(list) : list[i] = list[j] => i = j

DependsOnReportedSetOnly ==
  /\ loc.result = get_include_files(StdErr(Reversed(loc.lines)))
  /\ loc.result = get_include_files(StdErr(Flattened(loc.lines)))
  /\ loc.result = get_include_files(StdErr(loc.lines \o loc.lines))
  /\ loc.result = get_include_files(StdErr(PeriodLines(loc.lines)))

\* C10: get_include_files returns every distinct reported include file exactly
\* once as a non-empty resolved absolute path, whatever the order, the depth
\* and the repetition of the lines, and ignores lines without a leading period.
C10_IncludeFilesOnce ==
  pc = "done" =>
    /\ NoDuplicates(loc.result)
    /\ \A i \in 1..Len(loc.result) : IsCanonical(loc.result[i])
    /\ \A inc \in Reported(loc.lines) :
         \E i \in 1..Len(loc.result) : loc.result[i] # <<>> /\ loc.result[i] = resolve_path(inc)
    /\ DependsOnReportedSetOnly

\* What holds of it: no element twice, each a canonical path or (for a file
\* that cannot be resolved) the empty string, the same for every order, depth
\* and repetition of the lines.
C10_OnceOrEmpty ==
  pc = "done" =>
    /\ NoDuplicates(loc.result)
    /\ \A i \in 1..Len(loc.result) : loc.result[i] = <<>> \/ IsCanonical(loc.result[i])
    /\ \A inc \in Reported(loc.lines) :
         \E i \in 1..Len(loc.result) : loc.result[i] = resolve_path(inc)
    /\ DependsOnReportedSetOnly


(***************************************************************************)
(* make_preprocessor_cmd of the gcc and the msvc wrapper.                  *)
(* config::accuracy() is SLOPPY (0), DEFAULT (1) or STRICT (2).            *)
(***************************************************************************)
Accuracies == {"SLOPPY", "DEFAULT", "STRICT"}

AccuracyLevel(a) == CASE a = "SLOPPY" -> 0 [] a = "DEFAULT" -> 1 [] a = "STRICT" -> 2

DebugOptions ==
  {<<"-", "g">>, <<"-", "g", "g", "d", "b">>, <<"-", "g", "d", "w", "a", "r", "f">>, <<"-", "g", "d", "w", "a", "r", "f", "-", "2">>, <<"-", "g", "d", "w", "a", "r", "f", "-", "3">>, <<"-", "g", "d", "w", "a", "r", "f", "-", "4">>, <<"-", "g", "d", "w", "a", "r", "f", "-", "5">>,
   <<"-", "g", "s", "t", "a", "b", "s">>, <<"-", "g", "s", "t", "a", "b", "s", "+">>, <<"-", "g", "x", "c", "o", "f", "f">>, <<"-", "g", "x", "c", "o", "f", "f", "+">>, <<"-", "g", "v", "m", "s">>}

has_debug_symbols(args) == \E i \in 1..Len(args) : args[i] \in DebugOptions

RECURSIVE GccDropArgs(_, _, _, _)
\* The first loop of gcc make_preprocessor_cmd from index i on.
GccDropArgs(args, i, drop_next_arg, preprocess_args) ==
  IF i > Len(args) THEN preprocess_args
  ELSE IF args[i] = <<"-", "c">> THEN GccDropArgs(args, i + 1, FALSE, preprocess_args)
  ELSE IF args[i] = <<"-", "o">> THEN GccDropArgs(args, i + 1, TRUE, preprocess_args)
  ELSE IF drop_next_arg THEN GccDropArgs(args, i + 1, FALSE, preprocess_args)
  ELSE GccDropArgs(args, i + 1, FALSE, Append(preprocess_args, args[i]))

gcc_make_preprocessor_cmd(args, preprocessed_file, use_direct_mode, accuracy) ==
  LET debug_symbols_required ==
        has_debug_symbols(args) /\ AccuracyLevel(accuracy) >= AccuracyLevel("STRICT")
      coverage_symbols_required ==
        has_coverage_output(args) /\ AccuracyLevel(accuracy) >= AccuracyLevel("DEFAULT")
      inhibit_line_info == ~(debug_symbols_required \/ coverage_symbols_required)
  IN  GccDropArgs(args, 1, FALSE, <<>>)
        \o <<<<"-", "E">>>>
        \o (IF inhibit_line_info THEN <<<<"-", "P">>>> ELSE <<>>)
        \o <<<<"-", "o">>, preprocessed_file>>
        \o (IF use_direct_mode THEN <<<<"-", "H">>>> ELSE <<>>)

msvc_drop_this_arg(arg) ==
  \/ arg_equals(arg, <<"c">>)
  \/ arg_starts_with(arg, <<"F", "o">>)
  \/ arg_equals(arg, <<"C">>)
  \/ arg_equals(arg, <<"E">>)
  \/ arg_equals(arg, <<"E", "P">>)

msvc_has_debug_symbols(args) ==
  \E i \in 1..Len(args) :
    arg_equals(args[i], <<"Z", "7">>) \/ arg_equals(args[i], <<"Z", "i">>) \/ arg_equals(args[i], <<"Z", "I">>)

msvc_has_coverage_output(args) ==
  \E i \in 1..Len(args) :
    \/ arg_equals(args[i], <<"D", "E", "B", "U", "G">>)
    \/ arg_equals(args[i], <<"D", "E", "B", "U", "G", ":", "F", "U", "L", "L">>)
    \/ arg_equals(args[i], <<"Z", "i">>)
    \/ arg_equals(args[i], <<"Z", "I">>)

msvc_make_preprocessor_cmd(args, use_direct_mode, accuracy) ==
  LET debug_symbols_required ==
        msvc_has_debug_symbols(args) /\ AccuracyLevel(accuracy) >= AccuracyLevel("STRICT")
      coverage_symbols_required ==
        msvc_has_coverage_output(args) /\ AccuracyLevel(accuracy) >= AccuracyLevel("DEFAULT")
      inhibit_line_info == ~(debug_symbols_required \/ coverage_symbols_required)
  IN  SelectSeq(args, LAMBDA arg : ~msvc_drop_this_arg(arg))
        \o (IF inhibit_line_info THEN <<<<"/", "E", "P">>>> ELSE <<<<"/", "E">>>>)
        \o (IF use_direct_mode THEN <<<<"/", "s", "h", "o", "w", "I", "n", "c", "l", "u", "d", "e", "s">>>> ELSE <<>>)

GccCmdArgs == {<<"-", "c">>, <<"-", "o">>, <<"a", ".", "o">>, <<"a", ".", "c">>, <<"-", "g">>, <<"-", "g", "3">>, <<"-", "g", "g", "d", "b", "3">>, <<"-", "-", "c", "o", "v", "e", "r", "a", "g", "e">>}
MsvcCmdArgs == {<<"/", "c">>, <<"/", "F", "o", "a", ".", "o", "b", "j">>, <<"/", "Z", "7">>, <<"-", "Z", "7">>, <<"/", "Z", "i">>, <<"/", "E", "P">>, <<"/", "D", "E", "B", "U", "G">>, <<"a", ".", "c", "p", "p">>}

\* The options of the command line that make the compiler emit debug
\* information, among those the argument lists are written from.
EmitsDebugInfo(wrapper, arg) ==
  IF wrapper = "gcc" THEN arg \in {<<"-", "g">>, <<"-", "g", "3">>, <<"-", "g", "g", "d", "b", "3">>} ELSE arg \in {<<"/", "Z", "7">>, <<"-", "Z", "7">>}

PcInit ==
  /\ fs = <<>>
  /\ ino = <<>>
  /\ rd = <<>>
  /\ pc = "start"
  /\ \E w \in {"gcc", "msvc"}, a \in Accuracies, direct \in BOOLEAN :
       \E rest \in SeqsUpTo(IF w = "gcc" THEN GccCmdArgs ELSE MsvcCmdArgs, MaxArgs) :
         loc = [wrapper |-> w, accuracy |-> a, use_direct_mode |-> direct,
                m_args |-> <<IF w = "gcc" THEN <<"g", "c", "c">> ELSE <<"c", "l">>>> \o rest,
                result |-> <<>>]

GccMakePreprocessorCmd ==
  /\ pc = "start"
  /\ loc.wrapper = "gcc"
  /\ loc' = [loc EXCEPT !.result =
               gcc_make_preprocessor_cmd(loc.m_args, <<"/", "t", "m", "p", "/", "p", ".", "i">>, loc.use_direct_mode,
                                         loc.accuracy)]
  /\ pc' = "done"
  /\ UNCHANGED <<fs, ino, rd>>

MsvcMakePreprocessorCmd ==
  /\ pc = "start"
  /\ loc.wrapper = "msvc"
  /\ loc' = [loc EXCEPT !.result =
               msvc_make_preprocessor_cmd(loc.m_args, loc.use_direct_mode, loc.accuracy)]
  /\ pc' = "done"
  /\ UNCHANGED <<fs, ino, rd>>

PcNext == GccMakePreprocessorCmd \/ MsvcMakePreprocessorCmd

SpecPreprocessorCmd == PcInit /\ [][PcNext]_vars

Contains(list, arg) == \E i \in 1..Len(list) : list[i] = arg

KeepsLineInfo ==
  IF loc.wrapper = "gcc" THEN ~Contains(loc.result, <<"-", "P">>)
  ELSE Contains(loc.result, <<"/", "E">>) /\ ~Contains(loc.result, <<"/", "E", "P">>)

\* C11: with accuracy STRICT and an option that makes the compiler emit debug
\* information among the arguments, the preprocessor command keeps line
\* information: no -P for gcc, /E and not /EP for msvc.
C11_StrictKeepsLineInfo ==
  (/\ pc = "done"
   /\ loc.accuracy = "STRICT"
   /\ \E i \in 1..Len(loc.m_args) : EmitsDebugInfo(loc.wrapper, loc.m_args[i]))
    => KeepsLineInfo

\* The same for the options has_debug_symbols knows (gcc) and for msvc.
C11_StrictKeepsLineInfoKnown ==
  (/\ pc = "done"
   /\ loc.accuracy = "STRICT"
   /\ IF loc.wrapper = "gcc" THEN has_debug_symbols(loc.m_args)
      ELSE \E i \in 1..Len(loc.m_args) : EmitsDebugInfo(loc.wrapper, loc.m_args[i]))
    => KeepsLineInfo


(***************************************************************************)
(* get_include_files of the msvc wrapper.                                  *)
(***************************************************************************)
is_whitespace(c) == c \in {" ", "\t", "\n", "\r"}

lstrip(str) == substr(str, CountLeading(str, {" ", "\t", "\n", "\r"}, 1) + 1)

rstrip(str) ==
  LET hits == {i \in 1..Len(str) : ~is_whitespace(str[i])}
  IN  IF hits = {} THEN <<>> ELSE SubSeq(str, 1, CHOOSE i \in hits : \A j \in hits : j <= i)

strip(str) == lstrip(rstrip(str))

\* std::string::find: the first position where sub starts, 0 for npos.
find(str, sub) ==
  LET hits == {i \in 1..(Len(str) - Len(sub) + 1) : SubSeq(str, i, i + Len(sub) - 1) = sub}
  IN  IF hits = {} THEN 0 ELSE CHOOSE i \in hits : \A j \in hits : i <= j

INCPATH_LINE == <<"N", "o", "t", "e", ":", " ", "i", "n", "c", "l", "u", "d", "i", "n", "g", " ", "f", "i", "l", "e", ":">>

\* sizeof(INCPATH_LINE): the characters and the terminating zero.
INCPATH_LINE_SIZE == Len(INCPATH_LINE) + 1

\* line.substr(start + INCPATH_LINE_SIZE) for a line that holds the prefix at
\* the 1-based position start: std::out_of_range when it begins behind the end.
include_of_line(line, start) ==
  IF (start - 1) + INCPATH_LINE_SIZE > Len(line) THEN Throw("std::out_of_range")
  ELSE Ok(strip(substr(line, start + INCPATH_LINE_SIZE)))

msvc_get_include_files(std_err) ==
  LET lines == string_list(std_err, "\n")
      found == {i \in 1..Len(lines) : find(lines[i], INCPATH_LINE) # 0}
      include(i) == include_of_line(lines[i], find(lines[i], INCPATH_LINE))
  IN  IF \E i \in found : include(i).threw THEN Throw("std::out_of_range")
      ELSE Ok(InOrder({resolve_path(include(i).value) : i \in found}))


(***************************************************************************)
(* preprocess_source of the gcc and the msvc wrapper, from the test of the *)
(* arguments to the return.                                                *)
(***************************************************************************)
gcc_is_supported_always(args) == TRUE

\* The test of gcc preprocess_source for "-c" and "-o".
gcc_is_supported(args) ==
  LET is_object_compilation == \E i \in 1..Len(args) : args[i] = <<"-", "c">>
      has_object_output == \E i \in 1..Len(args) : args[i] = <<"-", "o">>
  IN  is_object_compilation /\ has_object_output

RECURSIVE MsvcCheckFrom(_, _, _)
\* The loop of msvc preprocess_source from index i on.
MsvcCheckFrom(args, i, is_object_compilation) ==
  IF i > Len(args) THEN Ok(is_object_compilation)
  ELSE IF arg_equals(args[i], <<"c">>) THEN MsvcCheckFrom(args, i + 1, TRUE)
  ELSE IF arg_equals(args[i], <<"Z", "i">>) \/ arg_equals(args[i], <<"Z", "I">>)
       THEN Throw("PDB generation is not supported.")
  ELSE MsvcCheckFrom(args, i + 1, is_object_compilation)

\* The test of msvc preprocess_source: Ok(TRUE) when it goes on.
msvc_is_supported(args) ==
  LET object_filename == try_get_obj_filename(args)
      check == MsvcCheckFrom(args, 1, FALSE)
  IN  IF object_filename.threw THEN object_filename
      ELSE IF check.threw THEN check
      ELSE IF ~check.value \/ object_filename.value = <<>>
           THEN Throw("Unsupported compilation command.")
      ELSE Ok(TRUE)

GccSourceArgs == {<<"-", "c">>, <<"-", "o">>, <<"a", ".", "o">>, <<"a", ".", "c">>, <<"-", "g">>, <<"-", "O", "2">>}
MsvcSourceArgs == {<<"/", "c">>, <<"/", "F", "o", "a", ".", "o", "b", "j">>, <<"/", "F", "o", ":", "d", "\\">>, <<"/", "Z", "i">>, <<"-", "Z", "I">>, <<"a", ".", "c", "p", "p">>}

OldImplicitInputFiles == <<<<"/", "w", "/", "o", "l", "d", ".", "h">>>>

PsInit ==
  /\ ino = <<>>
  /\ rd = <<>>
  /\ pc = "start"
  /\ \E files \in SUBSET IncludeTree : fs = [files |-> files, links |-> {}]
  /\ \E w \in {"gcc", "msvc"}, direct \in BOOLEAN, win \in BOOLEAN :
       \E rest \in SeqsUpTo(IF w = "gcc" THEN GccSourceArgs ELSE MsvcSourceArgs, MaxArgs) :
         loc = [wrapper |-> w, win |-> win, direct_mode |-> direct,
                m_args |-> <<IF w = "gcc" THEN <<"g", "c", "c">> ELSE <<"c", "l">>>> \o rest,
                m_implicit_input_files |-> OldImplicitInputFiles,
                tmp_file |-> FALSE, runs |-> 0, return_code |-> 0, std_err |-> <<>>,
                err |-> ""]

PsGccCheck ==
  /\ pc = "start"
  /\ loc.wrapper = "gcc"
  /\ IF gcc_is_supported(loc.m_args)
     THEN /\ pc' = "tmp_file"
          /\ UNCHANGED loc
     ELSE /\ pc' = "threw"
          /\ loc' = [loc EXCEPT !.err = "Unsupported complation command."]
  /\ UNCHANGED <<fs, ino, rd>>

PsMsvcCheck ==
  /\ pc = "start"
  /\ loc.wrapper = "msvc"
  /\ IF ~msvc_is_supported(loc.m_args).threw
     THEN /\ pc' = "run"
          /\ UNCHANGED loc
     ELSE /\ pc' = "threw"
          /\ loc' = [loc EXCEPT !.err = msvc_is_supported(loc.m_args).what]
  /\ UNCHANGED <<fs, ino, rd>>

\* file::tmp_file_t preprocessed_file(...)
PsTmpFile ==
  /\ pc = "tmp_file"
  /\ loc' = [loc EXCEPT !.tmp_file = TRUE]
  /\ pc' = "run"
  /\ UNCHANGED <<fs, ino, rd>>

\* sys::run(preprocessor_args) and the test of its return code.
PsRun(outcome, lines) ==
  /\ pc = "run"
  /\ loc' = [loc EXCEPT !.runs = loc.runs + 1,
                        !.return_code = IF outcome = "failed" THEN 1 ELSE 0,
                        !.std_err = IF outcome = "ok" THEN StdErr(lines) ELSE <<>>,
                        !.err = IF outcome = "ok" THEN ""
                                ELSE "Preprocessing command was unsuccessful."]
  /\ pc' = IF outcome = "ok" THEN "collect" ELSE "threw"
  /\ UNCHANGED <<fs, ino, rd>>

\* m_implicit_input_files = get_include_files(result.std_err) in direct mode,
\* then the preprocessed text is returned.
PsCollect ==
  /\ pc = "collect"
  /\ LET includes == IF loc.wrapper = "gcc" THEN Ok(get_include_files(loc.std_err))
                     ELSE msvc_get_include_files(loc.std_err)
     IN  IF ~loc.direct_mode THEN pc' = "returned" /\ UNCHANGED loc
         ELSE IF includes.threw
              THEN pc' = "threw" /\ loc' = [loc EXCEPT !.err = includes.what]
         ELSE /\ pc' = "returned"
              /\ loc' = [loc EXCEPT !.m_implicit_input_files = includes.value]
  /\ UNCHANGED <<fs, ino, rd>>

PsStdErrLines == {<<".", " ", "a", ".", "h">>, <<"N", "o", "t", "e", ":", " ", "i", "n", "c", "l", "u", "d", "i", "n", "g", " ", "f", "i", "l", "e", ":", " ", "s", "/", "k", ".", "h">>, <<"N", "o", "t", "e", ":", " ", "i", "n", "c", "l", "u", "d", "i", "n", "g", " ", "f", "i", "l", "e", ":">>}

PsNext ==
  \/ PsGccCheck
  \/ PsMsvcCheck
  \/ PsTmpFile
  \/ \E outcome \in RunOutcomes, lines \in SeqsUpTo(PsStdErrLines, 1) : PsRun(outcome, lines)
  \/ PsCollect

SpecPreprocessSource == PsInit /\ [][PsNext]_vars

EndsWith(str, suffix) ==
  Len(str) >= Len(suffix) /\ SubSeq(str, Len(str) - Len(suffix) + 1, Len(str)) = suffix

IsFoArg(arg) == first_chars(arg, 3) \in {<<"/", "F", "o">>, <<"-", "F", "o">>} /\ Len(arg) > 3

NamesObjectFile(arg) ==
  IsFoArg(arg) /\ (EndsWith(lower_case(arg), <<".", "o", "b", "j">>) \/ EndsWith(lower_case(arg), <<".", "o">>))

NamesDirectory(args, arg) ==
  /\ IsFoArg(arg)
  /\ EndsWith(arg, <<"\\">>)
  /\ \E e \in SourceExtensions : EndsWith(lower_case(args[Len(args)]), e)

MsvcLacksCompileOrHasPdb(args) ==
  \/ ~\E i \in 1..Len(args) : args[i] \in {<<"/", "c">>, <<"-", "c">>}
  \/ \E i \in 1..Len(args) : args[i] \in {<<"/", "Z", "i">>, <<"-", "Z", "i">>, <<"/", "Z", "I">>, <<"-", "Z", "I">>}

\* Not a supported single-object compilation, as the claim lists the cases.
Unsupported ==
  IF loc.wrapper = "gcc"
  THEN ~Contains(loc.m_args, <<"-", "c">>) \/ ~Contains(loc.m_args, <<"-", "o">>)
  ELSE \/ MsvcLacksCompileOrHasPdb(loc.m_args)
       \/ ~\E i \in 1..Len(loc.m_args) : NamesObjectFile(loc.m_args[i])

\* The same, where a /Fo that names a directory, with a source file as the last
\* argument, counts as an object output too.
UnsupportedOrNoOutput ==
  IF loc.wrapper = "gcc"
  THEN ~Contains(loc.m_args, <<"-", "c">>) \/ ~Contains(loc.m_args, <<"-", "o">>)
  ELSE \/ MsvcLacksCompileOrHasPdb(loc.m_args)
       \/ ~\E i \in 1..Len(loc.m_args) :
             NamesObjectFile(loc.m_args[i]) \/ NamesDirectory(loc.m_args, loc.m_args[i])

RaisedBeforeAnything ==
  /\ pc = "threw"
  /\ loc.runs = 0
  /\ ~loc.tmp_file
  /\ loc.m_implicit_input_files = OldImplicitInputFiles

\* C12: when the arguments lack -c or -o (gcc), or lack /c, lack an object-file
\* /Fo or contain /Zi or /ZI (msvc), preprocess_source raises an error before it
\* runs a subprocess or makes a temporary file, m_implicit_input_files unchanged.
C12_UnsupportedRaisesFirst ==
  (pc # "start" /\ Unsupported) => RaisedBeforeAnything

\* C12, with a /Fo naming a directory (and a source file as the last argument)
\* counted as an object output of msvc.
C12_NoOutputRaisesFirst ==
  (pc # "start" /\ UnsupportedOrNoOutput) => RaisedBeforeAnything

\* msvc with /c, an object-file /Fo and /Zi has raised its error.
C12_Witness ==
  /\ pc = "threw"
  /\ loc.wrapper = "msvc"
  /\ Contains(loc.m_args, <<"/", "c">>)
  /\ Contains(loc.m_args, <<"/", "F", "o", "a", ".", "o", "b", "j">>)
  /\ Contains(loc.m_args, <<"/", "Z", "i">>)
  /\ loc.runs = 0


(***************************************************************************)
(* canonicalize_path (the branch that is not _WIN32) and find_executable.  *)
(***************************************************************************)
PATH_SEPARATOR_CHR == IF WIN32 THEN "\\" ELSE "/"
PATH_DELIMITER_CHR == IF WIN32 THEN ";" ELSE ":"

append_path(path, append) ==
  IF path = <<>> \/ append = <<>> \/ path[Len(path)] = PATH_SEPARATOR_CHR
  THEN path \o append
  ELSE path \o <<PATH_SEPARATOR_CHR>> \o append

is_absolute_path(path) ==
  IF WIN32
  THEN \/ Len(path) >= 3 /\ path[2] = ":" /\ path[3] \in {"\\", "/"}
       \/ Len(path) >= 2 /\ path[1] = "\\" /\ path[2] = "\\"
  ELSE path # <<>> /\ path[1] = PATH_SEPARATOR_CHR

is_relateive_path(path) == get_last_path_separator_pos(path) # 0

get_cwd == WorkDir

RECURSIVE FilterParts(_, _)
\* The loop of canonicalize_path over the parts that are left.
FilterParts(parts, filtered_parts) ==
  IF parts = <<>> THEN Ok(filtered_parts)
  ELSE IF Head(parts) = <<".", ".">>
       THEN IF Len(filtered_parts) < 1
            THEN Throw("Unable to canonicalize the path")
            ELSE FilterParts(Tail(parts), SubSeq(filtered_parts, 1, Len(filtered_parts) - 1))
  ELSE IF Head(parts) # <<>> /\ Head(parts) # <<".">>
       THEN FilterParts(Tail(parts), Append(filtered_parts, Head(parts)))
  ELSE FilterParts(Tail(parts), filtered_parts)

RECURSIVE join(_, _)
join(list, separator) ==
  IF list = <<>> THEN <<>>
  ELSE IF Len(list) = 1 THEN Head(list)
  ELSE Head(list) \o separator \o join(Tail(list), separator)

canonicalize_path_as_is(path) == Ok(path)

canonicalize_path(path) ==
  LET result == IF ~is_absolute_path(path) THEN append_path(get_cwd, path) ELSE path
      filtered_parts == FilterParts(string_list(result, PATH_SEPARATOR_CHR), <<>>)
  IN  IF filtered_parts.threw THEN filtered_parts
      ELSE Ok(<<PATH_SEPARATOR_CHR>> \o join(filtered_parts.value, <<PATH_SEPARATOR_CHR>>))

\* With _WIN32, PATHEXT gives the extensions; loc.pathext is its value.
get_exe_extensions ==
  IF WIN32 THEN <<<<>>>> \o string_list(lower_case(loc.pathext), ";") ELSE <<<<>>>>

is_excluded_never(true_path, exclude) == FALSE

\* The test for the excluded executable, made on the resolved path.
is_excluded(true_path, exclude) == lower_case(get_file_part(true_path, FALSE)) = exclude

exe_path(true_path, virtual_path, program) ==
  [real_path |-> true_path, virtual_path |-> virtual_path, invoked_as |-> program]

RECURSIVE FindByPath(_, _, _)
\* The loop over the extensions for an absolute or relative program: the
\* executable found, or the file name to look for in PATH (empty when none).
FindByPath(program, exclude, i) ==
  IF i > Len(get_exe_extensions) THEN [found |-> FALSE, file_to_find |-> <<>>]
  ELSE LET path_with_ext == program \o get_exe_extensions[i]
           true_path == resolve_path(path_with_ext)
       IN  IF true_path = <<>> THEN FindByPath(program, exclude, i + 1)
           ELSE IF ~is_excluded(true_path, exclude)
                THEN [found |-> TRUE, true_path |-> true_path,
                      virtual_path |-> canonicalize_path(path_with_ext)]
           ELSE [found |-> FALSE, file_to_find |-> get_file_part(path_with_ext, TRUE)]

RECURSIVE FindInPath(_, _, _, _, _, _)
\* The loops over search_path (index i) and the extensions (index j).
FindInPath(program, file_to_find, exclude, search_path, i, j) ==
  IF i > Len(search_path) THEN Throw("Could not find the executable file.")
  ELSE IF j > Len(get_exe_extensions)
       THEN FindInPath(program, file_to_find, exclude, search_path, i + 1, 1)
  ELSE LET virtual_path == append_path(search_path[i], file_to_find \o get_exe_extensions[j])
           true_path == resolve_path(virtual_path)
       IN  IF true_path # <<>> /\ is_file(Components(true_path))
              /\ ~is_excluded(true_path, exclude)
           THEN Ok(exe_path(true_path, virtual_path, program))
           ELSE FindInPath(program, file_to_find, exclude, search_path, i, j + 1)

\* search_path: with _WIN32 the working directory, then the parts of PATH.
search_path_of(path_env) ==
  (IF WIN32 /\ get_cwd # <<>> THEN <<get_cwd>> ELSE <<>>)
    \o string_list(path_env, PATH_DELIMITER_CHR)

find_executable(program, exclude, path_env) ==
  LET by_path == FindByPath(program, exclude, 1)
      direct == is_absolute_path(program) \/ is_relateive_path(program)
      file_to_find == IF direct THEN by_path.file_to_find ELSE program
  IN  IF direct /\ by_path.found
      THEN (IF by_path.virtual_path.threw THEN by_path.virtual_path
            ELSE Ok(exe_path(by_path.true_path, by_path.virtual_path.value, program)))
      ELSE IF file_to_find # <<>>
           THEN FindInPath(program, file_to_find, exclude, search_path_of(path_env), 1, 1)
      ELSE Throw("Could not find the executable file.")


ToolFiles == {<<"/", "b", "/", "b", "u", "i", "l", "d", "c", "a", "c", "h", "e">>, <<"/", "u", "/", "g", "c", "c">>, <<"/", "w", "/", "g", "c", "c">>, <<"/", "u", "/", "g", "c", "c", ".", "e", "x", "e">>, <<"/", "v", "/", "B", "u", "i", "l", "d", "C", "a", "c", "h", "e", ".", "e", "x", "e">>}
ToolLinks == {[path |-> <<"/", "b", "/", "g", "c", "c">>, target |-> <<"/", "b", "/", "b", "u", "i", "l", "d", "c", "a", "c", "h", "e">>],
              [path |-> <<"/", "u", "/", "c", "c">>, target |-> <<"/", "u", "/", "g", "c", "c">>],
              [path |-> <<"/", "v", "/", "g", "c", "c">>, target |-> <<"/", "v", "/", "B", "u", "i", "l", "d", "C", "a", "c", "h", "e", ".", "e", "x", "e">>]}
ToolPrograms == {<<"g", "c", "c">>, <<"c", "c">>, <<"/", "b", "/", "g", "c", "c">>, <<".", ".", "/", "v", "/", "g", "c", "c">>, <<"/", "u", "/", "c", "c">>}
ToolSearchPaths ==
  {<<>>, <<<<"/", "b">>>>, <<<<"/", "b">>, <<"/", "u">>>>, <<<<"/", "u">>, <<"/", "b">>>>, <<<<"/", "v">>, <<"/", "u">>>>}

FeInit ==
  /\ ino = <<>>
  /\ rd = <<>>
  /\ pc = "start"
  /\ \E files \in SUBSET ToolFiles, links \in SUBSET ToolLinks :
       fs = [files |-> files, links |-> links]
  /\ \E win \in BOOLEAN, program \in ToolPrograms, dirs \in ToolSearchPaths :
       loc = [win |-> win, pathext |-> <<".", "E", "X", "E">>, program |-> program,
              exclude |-> <<"b", "u", "i", "l", "d", "c", "a", "c", "h", "e">>, dirs |-> dirs,
              path_env |-> join(dirs, <<IF win THEN ";" ELSE ":">>),
              result |-> Throw("")]

FindExecutable ==
  /\ pc = "start"
  /\ loc' = [loc EXCEPT !.result = find_executable(loc.program, loc.exclude, loc.path_env)]
  /\ pc' = "done"
  /\ UNCHANGED <<fs, ino, rd>>

FeNext == FindExecutable

SpecFindExecutable == FeInit /\ [][FeNext]_vars

\* The last component of a path up to its last period, in lower case.
BaseName(path) ==
  LET name == Components(path)[Len(Components(path))]
      dot == rfind(name, {"."})
  IN  lower_case(IF dot > 1 THEN SubSeq(name, 1, dot - 1) ELSE name)

\* The file name that is looked for in the directories, when they are searched.
SearchedName ==
  IF rfind(loc.program, {"/", "\\"}) = 0 THEN loc.program
  ELSE IF resolve_path(loc.program) # <<>> /\ BaseName(resolve_path(loc.program)) = loc.exclude
       THEN Components(loc.program)[Len(Components(loc.program))]
  ELSE <<>>

\* The candidates of the directories, in the order of the directories and, in a
\* directory, of the extensions: those that resolve to a regular file that is
\* not the excluded one.
GoodCandidates(dirs) ==
  SelectSeq(
    [k \in 1..(Len(dirs) * Len(get_exe_extensions)) |->
       resolve_path(dirs[((k - 1) \div Len(get_exe_extensions)) + 1] \o <<"/">> \o SearchedName
                    \o get_exe_extensions[((k - 1) % Len(get_exe_extensions)) + 1])],
    LAMBDA c : c # <<>> /\ c \in fs.files /\ BaseName(c) # loc.exclude)

NeverExcluded ==
  (pc = "done" /\ ~loc.result.threw) => BaseName(loc.result.value.real_path) # loc.exclude

FirstOf(dirs) ==
  (pc = "done" /\ SearchedName # <<>>) =>
    IF GoodCandidates(dirs) = <<>> THEN loc.result.threw
    ELSE ~loc.result.threw /\ loc.result.value.real_path = Head(GoodCandidates(dirs))

\* C13: find_executable never returns the excluded executable; when it searches
\* PATH it returns the candidate of the earliest PATH directory that resolves to
\* a regular file and is not excluded, and raises an error when there is none.
C13_FirstInPath == NeverExcluded /\ FirstOf(loc.dirs)

\* C13, with the working directory searched before the PATH directories in the
\* _WIN32 build.
C13_FirstInSearchPath ==
  NeverExcluded /\ FirstOf((IF loc.win THEN <<WorkDir>> ELSE <<>>) \o loc.dirs)

\* gcc is a link to the excluded buildcache in the first PATH directory and a
\* file in the second one, which is returned.
C13_Witness ==
  /\ pc = "done"
  /\ loc.program = <<"g", "c", "c">>
  /\ loc.dirs = <<<<"/", "b">>, <<"/", "u">>>>
  /\ [path |-> <<"/", "b", "/", "g", "c", "c">>, target |-> <<"/", "b", "/", "b", "u", "i", "l", "d", "c", "a", "c", "h", "e">>] \in fs.links
  /\ <<"/", "b", "/", "b", "u", "i", "l", "d", "c", "a", "c", "h", "e">> \in fs.files
  /\ ~loc.result.threw
  /\ loc.result.value.real_path = <<"/", "u", "/", "g", "c", "c">>


(***************************************************************************)
(* can_handle_command of the gcc wrapper with the memo of the data store   *)
(* "gcc_wrapper" and the clock.  fs.memo is the item stored for the key    *)
(* is_gcc_compatible_<real path>, fs.now the time in seconds, fs.alt the   *)
(* files next to the executable.                                           *)
(***************************************************************************)
MaxTicks == 4
TickSeconds == 15
VALUE_TIMEOUT == 30

Digits == {"0", "1", "2", "3", "4", "5", "6", "7", "8", "9"}

\* str matches -[1-9][0-9]*(\.[0-9]+)*
IsVersionSuffix(str) ==
  /\ Len(str) >= 2
  /\ str[1] = "-"
  /\ str[2] \in Digits \ {"0"}
  /\ \A i \in 3..Len(str) :
       /\ str[i] \in Digits \cup {"."}
       /\ str[i] = "." => (i < Len(str) /\ str[i + 1] \in Digits)

\* What can be left of the strings after an optional part, one of prefixes.
AfterOptional(rests, prefixes) ==
  rests \cup {substr(x[1], Len(x[2]) + 1) :
                x \in {y \in rests \X prefixes : first_chars(y[1], Len(y[2])) = y[2]}}

AfterVersion(rests) ==
  rests \cup UNION {{substr(r, i + 1) :
                       i \in {j \in 1..Len(r) : IsVersionSuffix(SubSeq(r, 1, j))}} :
                    r \in rests}

\* std::regex_match(cmd, clang_re) with clang_re
\* .*clang(\+\+|-cpp)?(-[1-9][0-9]*(\.[0-9]+)*)?(\.exe)?
clang_re_match(cmd) ==
  LET after_clang == {substr(cmd, i + 5) :
                        i \in {j \in 1..(Len(cmd) - 4) : SubSeq(cmd, j, j + 4) = <<"c", "l", "a", "n", "g">>}}
  IN  <<>> \in AfterOptional(AfterVersion(AfterOptional(after_clang, {<<"+", "+">>, <<"-", "c", "p", "p">>})),
                             {<<".", "e", "x", "e">>})

\* The files is_file_identical_to looks at: file::get_file_info gives the size
\* and the inode, the hasher reads the content.
NoFile == [present |-> FALSE, size |-> 0, inode |-> 0, content |-> <<>>]
FileInfo(size, inode, content) ==
  [present |-> TRUE, size |-> size, inode |-> inode, content |-> content]

alternative_names == <<<<"c", "l", "a", "n", "g">>, <<"g", "c", "c">>, <<"c", "l", "a", "n", "g", "+", "+">>, <<"g", "+", "+">>>>

RECURSIVE IdenticalFrom(_, _, _, _)
\* The loop of is_file_identical_to from the i-th alternative name on; hashed
\* counts the calls of hasher_t::update_from_file.
IdenticalFrom(reference_info, i, reference_hash_computed, hashed) ==
  IF i > Len(alternative_names) THEN [identical |-> FALSE, hashed |-> hashed]
  ELSE LET alt_info == fs.alt[alternative_names[i]]
           now_hashed == hashed + (IF reference_hash_computed THEN 1 ELSE 2)
       IN  IF ~alt_info.present \/ alt_info.size # reference_info.size
           THEN IdenticalFrom(reference_info, i + 1, reference_hash_computed, hashed)
           ELSE IF reference_info.inode # 0 /\ alt_info.inode = reference_info.inode
                THEN [identical |-> TRUE, hashed |-> hashed]
           ELSE IF alt_info.content = reference_info.content
                THEN [identical |-> TRUE, hashed |-> now_hashed]
           ELSE IdenticalFrom(reference_info, i + 1, TRUE, now_hashed)

is_file_identical_to(reference_info) == IdenticalFrom(reference_info, 1, FALSE, 0)

\* data_store_t: an item is valid from store_item until its time-out has passed.
NoItem == [present |-> FALSE, value |-> "", expires |-> 0]
is_valid(store_item) == store_item.present /\ fs.now < store_item.expires
store_item(value, timeout) == [present |-> TRUE, value |-> value, expires |-> fs.now + timeout]

uses_memo_always(cmd) == TRUE

\* if (cmd == "cc" || cmd == "c++")
uses_memo(cmd) == cmd \in {<<"c", "c">>, <<"c", "+", "+">>}

\* What a call of can_handle_command does: the value returned, whether the memo
\* was read and written, whether the identity check ran and how many files it
\* hashed, and the memo afterwards.
can_handle_command(real_path, virtual_path) ==
  LET cmd == lower_case(get_file_part(real_path, TRUE))
      virt_cmd == lower_case(get_file_part(virtual_path, FALSE))
      untouched(r) == [result |-> r, read |-> FALSE, wrote |-> FALSE, checked |-> FALSE,
                       hashed |-> 0, memo |-> fs.memo]
      check == is_file_identical_to(fs.reference)
  IN  IF find(cmd, <<"g", "c", "c">>) # 0 \/ find(cmd, <<"g", "+", "+">>) # 0 THEN untouched(TRUE)
      ELSE IF virt_cmd = <<"c", "l", "a", "n", "g", "-", "c", "l">> THEN untouched(FALSE)
      ELSE IF clang_re_match(cmd) THEN untouched(TRUE)
      ELSE IF ~uses_memo(cmd) THEN untouched(FALSE)
      ELSE IF is_valid(fs.memo)
           THEN [result |-> fs.memo.value = "true", read |-> TRUE, wrote |-> FALSE,
                 checked |-> FALSE, hashed |-> 0, memo |-> fs.memo]
      ELSE [result |-> check.identical, read |-> TRUE, wrote |-> TRUE, checked |-> TRUE,
            hashed |-> check.hashed,
            memo |-> store_item(IF check.identical THEN "true" ELSE "false", VALUE_TIMEOUT)]


ExeNames == {<<"c", "c">>, <<"c", "+", "+">>, <<"C", "C">>, <<"g", "c", "c", "-", "9">>, <<"c", "l", "a", "n", "g", "-", "1", "2", ".", "0">>, <<"c", "l", "a", "n", "g", "-", "t", "i", "d", "y">>, <<"l", "d">>, <<"c", "c", ".", "e", "x", "e">>}
InvokedNames == {<<"c", "c">>, <<"c", "l", "a", "n", "g", "-", "c", "l">>, <<"c", "l", "a", "n", "g", "-", "c", "l", ".", "e", "x", "e">>}

ReferenceInfos == {FileInfo(2, 1, <<"A", "B">>), FileInfo(2, 0, <<"A", "B">>)}
AlternativeInfos ==
  {NoFile, FileInfo(2, 1, <<"A", "B">>), FileInfo(2, 2, <<"A", "B">>), FileInfo(2, 3, <<"C", "D">>),
   FileInfo(3, 4, <<"A", "B", "C">>)}

NoCall == [result |-> FALSE, read |-> FALSE, wrote |-> FALSE, checked |-> FALSE,
           hashed |-> 0, memo |-> NoItem, valid_before |-> FALSE, value_before |-> "",
           at |-> 0]

ChInit ==
  /\ ino = <<>>
  /\ rd = <<>>
  /\ pc = "idle"
  /\ \E ref \in ReferenceInfos, clang \in AlternativeInfos, gcc \in AlternativeInfos :
       fs = [memo |-> NoItem, now |-> 0, reference |-> ref,
             alt |-> [n \in {alternative_names[i] : i \in 1..Len(alternative_names)} |->
                        IF n = <<"c", "l", "a", "n", "g">> THEN clang ELSE IF n = <<"g", "c", "c">> THEN gcc ELSE NoFile]]
  /\ \E name \in ExeNames, invoked \in InvokedNames :
       loc = [win |-> FALSE, real_path |-> <<"/", "u", "/">> \o name, virtual_path |-> <<"/", "b", "/">> \o invoked,
              calls |-> 0, last |-> NoCall]

CanHandleCommand ==
  /\ loc.calls < 3
  /\ LET call == can_handle_command(loc.real_path, loc.virtual_path)
     IN  /\ fs' = [fs EXCEPT !.memo = call.memo]
         /\ loc' = [loc EXCEPT !.calls = loc.calls + 1,
                               !.last = [result |-> call.result, read |-> call.read,
                                         wrote |-> call.wrote, checked |-> call.checked,
                                         hashed |-> call.hashed, memo |-> call.memo,
                                         valid_before |-> is_valid(fs.memo),
                                         value_before |-> fs.memo.value, at |-> fs.now]]
  /\ pc' = "called"
  /\ UNCHANGED <<ino, rd>>

\* Time passes between two calls.
Tick ==
  /\ fs.now < MaxTicks * TickSeconds
  /\ fs' = [fs EXCEPT !.now = fs.now + TickSeconds]
  /\ pc' = "idle"
  /\ UNCHANGED <<ino, loc, rd>>

ChNext == CanHandleCommand \/ Tick

SpecCanHandle == ChInit /\ [][ChNext]_vars

RealName == get_file_part(loc.real_path, TRUE)

MemoRule ==
  /\ loc.last.checked <=> ~loc.last.valid_before
  /\ loc.last.checked =>
       /\ loc.last.wrote
       /\ loc.last.memo = [present |-> TRUE,
                           value |-> IF loc.last.result THEN "true" ELSE "false",
                           expires |-> loc.last.at + 30]
  /\ loc.last.valid_before =>
       /\ loc.last.result = (loc.last.value_before = "true")
       /\ loc.last.hashed = 0
       /\ ~loc.last.wrote

GccCodegenOptions == {<<"-", "O", "2">>, <<"-", "O", "3">>, <<"-", "f", "P", "I", "C">>, <<"-", "m", "a", "r", "c", "h", "=", "x">>}
MsvcCodegenOptions == {<<"/", "O", "2">>, <<"/", "O", "d">>, <<"/", "M", "D">>}
CodegenOptions(wrapper) == IF wrapper = "gcc" THEN GccCodegenOptions ELSE MsvcCodegenOptions

GccOtherArgs == {<<"-", "c">>, <<"-", "I">>, <<"-", "I", "p">>, <<"-", "o">>, <<"a", ".", "c">>, <<"-", "D", "X">>, <<"-", "M", "F">>}
MsvcOtherArgs == {<<"/", "c">>, <<"/", "I">>, <<"/", "I", "p">>, <<"/", "F", "o", "a", ".", "o", "b", "j">>, <<"a", ".", "c", "p", "p">>, <<"/", "D", "X">>}
OtherArgs(wrapper) == IF wrapper = "gcc" THEN GccOtherArgs ELSE MsvcOtherArgs

InsertAt(list, k, x) == SubSeq(list, 1, k - 1) \o <<x>> \o SubSeq(list, k, Len(list))

CgInit ==
  /\ fs = <<>>
  /\ ino = <<>>
  /\ rd = <<>>
  /\ pc = "start"
  /\ \E w \in {"gcc", "msvc"} :
       \E base \in SeqsUpTo(OtherArgs(w), MaxArgs - 1), option \in CodegenOptions(w) :
         \E k \in 1..(Len(base) + 1), other \in (CodegenOptions(w) \cup {<<>>}) \ {option} :
           loc = [wrapper |-> w, win |-> (w = "msvc"), template |-> <<>>,
                  option |-> option, at |-> k + 1,
                  m_args |-> <<CompilerPath(w, 1)>> \o InsertAt(base, k, option),
                  other_args |-> <<CompilerPath(w, 1)>> \o
                                   (IF other = <<>> THEN base ELSE InsertAt(base, k, other)),
                  result |-> <<>>, other_result |-> <<>>]

CgNext == GccGetRelevantArguments \/ MsvcGetRelevantArguments

SpecCodegenArgs == CgInit /\ [][CgNext]_vars

RECURSIVE IsFileNameOperand(_, _)
\* The i-th argument of a gcc command line is the file name that belongs to
\* the -I, -MF, -MT, -MQ or -o before it, and not an option.
IsFileNameOperand(args, i) ==
  /\ i > 2
  /\ args[i - 1] \in {<<"-", "I">>, <<"-", "M", "F">>, <<"-", "M", "T">>, <<"-", "M", "Q">>, <<"-", "o">>}
  /\ ~IsFileNameOperand(args, i - 1)

StandsAsOption ==
  loc.wrapper = "gcc" => ~IsFileNameOperand(loc.m_args, loc.at)

RECURSIVE IsSubSeqOf(_, _)
\* The elements of a are elements of b in the order of b.
IsSubSeqOf(a, b) ==
  \/ a = <<>>
  \/ /\ b # <<>>
     /\ IF Head(a) = Head(b) THEN IsSubSeqOf(Tail(a), Tail(b)) ELSE IsSubSeqOf(a, Tail(b))

MaxCalls == 2

\* The threads: two of process 1 and one of process 2.
Threads == {<<1, 1>>, <<1, 2>>, <<2, 1>>}
Processes == {th[1] : th \in Threads}

\* Process ids (processes that run at the same time have different ones) and
\* the times the clock shows, seconds and microseconds.
ProcessIds == {1, 20, 37}
Times == <<[sec |-> 0, usec |-> 20], [sec |-> 20, usec |-> 0]>>

CHARS == <<"a", "b", "c", "d", "e", "f", "g", "h", "i", "j", "k", "l", "m", "n", "o", "p", "q", "r", "s", "t", "u", "v", "w", "x", "y", "z", "0", "1", "2", "3", "4", "5", "6", "7", "8", "9">>
NUM_CHARS == Len(CHARS)

RECURSIVE IdDigits(_)
\* The loop of to_id_part: the digits to the base NUM_CHARS, lowest first.
IdDigits(q) ==
  IF q = 0 THEN <<>> ELSE <<CHARS[(q % NUM_CHARS) + 1]>> \o IdDigits(q \div NUM_CHARS)

to_id_part_same(x) == <<"u">>

to_id_part(x) == IF x = 0 THEN <<"u">> ELSE IdDigits(x)

get_unique_id(pid, date_t, hires_t, number) ==
  to_id_part(pid) \o <<"-">> \o to_id_part(date_t) \o <<"-">> \o to_id_part(hires_t) \o <<"-">>
    \o to_id_part(number)

TmpDir == <<"/", "t">>
TmpExtension == <<".", "t", "m", "p">>

UiInit ==
  /\ ino = <<>>
  /\ rd = <<>>
  /\ pc = [th \in Threads |-> "idle"]
  /\ \E pid \in [Processes -> ProcessIds] :
       /\ \A p, q \in Processes : p # q => pid[p] # pid[q]
       /\ fs = [pid |-> pid, number |-> [p \in Processes |-> 0], clock |-> 1]
  /\ loc = [win |-> FALSE,
            th |-> [th \in Threads |-> [pid |-> 0, date_t |-> 0, hires_t |-> 0, made |-> <<>>]]]

\* get_unique_id: pid, date_t and hires_t are read.
UiGather(th) ==
  /\ pc[th] = "idle"
  /\ Len(loc.th[th].made) < MaxCalls
  /\ loc' = [loc EXCEPT !.th[th].pid = fs.pid[th[1]],
                        !.th[th].date_t = Times[fs.clock].sec,
                        !.th[th].hires_t = Times[fs.clock].sec * 2^20 + Times[fs.clock].usec]
  /\ pc' = [pc EXCEPT ![th] = "gathered"]
  /\ UNCHANGED <<fs, ino, rd>>

\* get_unique_id: ++s_tmp_name_number, one atomic step; the identifier is
\* returned to the constructor of tmp_file_t, which sets m_path.  The counter
\* holds at least 32 bits: with MaxCalls calls of a thread it does not wrap.
UiIncrement(th) ==
  /\ pc[th] = "gathered"
  /\ LET number == fs.number[th[1]] + 1
         id == get_unique_id(loc.th[th].pid, loc.th[th].date_t, loc.th[th].hires_t, number)
     IN  /\ fs' = [fs EXCEPT !.number[th[1]] = number]
         /\ loc' = [loc EXCEPT !.th[th].made =
                      Append(@, [id |-> id,
                                 pid_part |-> to_id_part(loc.th[th].pid),
                                 number_part |-> to_id_part(number),
                                 m_path |-> append_path(TmpDir, <<"b", "c", "a", "c", "h", "e", "-">> \o id \o TmpExtension)])]
  /\ pc' = [pc EXCEPT ![th] = "idle"]
  /\ UNCHANGED <<ino, rd>>

\* Time passes.
UiClock ==
  /\ fs.clock < Len(Times)
  /\ fs' = [fs EXCEPT !.clock = fs.clock + 1]
  /\ UNCHANGED <<ino, pc, loc, rd>>

UiNext ==
  \/ \E th \in Threads : UiGather(th)
  \/ \E th \in Threads : UiIncrement(th)
  \/ UiClock

SpecUniqueId == UiInit /\ [][UiNext]_vars

\* The calls that have returned: the thread and the number of its call.
UiCalls == {c \in Threads \X (1..MaxCalls) : c[2] <= Len(loc.th[c[1]].made)}
Made(c) == loc.th[c[1]].made[c[2]]

\* C17: any two calls of get_unique_id return different strings: calls of the
\* threads of one process differ in the part made of the counter, calls of
\* different processes that run at the same time differ in the part made of
\* the process id; no two tmp_file_t for one directory and extension have the
\* same path.
C17_UniqueIds ==
  \A c, d \in UiCalls :
    c # d =>
      /\ Made(c).id # Made(d).id
      /\ Made(c).m_path # Made(d).m_path
      /\ c[1][1] = d[1][1] => Made(c).number_part # Made(d).number_part
      /\ c[1][1] # d[1][1] => Made(c).pid_part # Made(d).pid_part

\* Two threads of one process and a thread of another process have made their
\* temporary files at the same time of day; the first calls of the two
\* processes have the same counter part.
C17_Witness ==
  /\ Len(loc.th[<<1, 1>>].made) >= 1
  /\ Len(loc.th[<<1, 2>>].made) >= 1
  /\ Len(loc.th[<<2, 1>>].made) >= 1
  /\ pc[<<1, 1>>] = "idle" /\ pc[<<1, 2>>] = "idle"
  /\ loc.th[<<1, 1>>].hires_t = loc.th[<<1, 2>>].hires_t
  /\ loc.th[<<1, 1>>].hires_t = loc.th[<<2, 1>>].hires_t
  /\ \E i \in 1..Len(loc.th[<<1, 1>>].made) :
       loc.th[<<1, 1>>].made[i].number_part = loc.th[<<2, 1>>].made[1].number_part


(***************************************************************************)
(* canonicalize_path without _WIN32, applied to every path of up to        *)
(* MaxPathLen characters, and once more to what it returned.               *)
(***************************************************************************)
MaxPathLen == 5

PathChars == {"/", ".", "a"}

CpInit ==
  /\ fs = <<>>
  /\ ino = <<>>
  /\ rd = <<>>
  /\ pc = "start"
  /\ \E path \in SeqsUpTo(PathChars, MaxPathLen) :
       loc = [win |-> FALSE, path |-> path, result |-> Ok(<<>>), again |-> Ok(<<>>)]

CanonicalizePath ==
  /\ pc = "start"
  /\ loc' = [loc EXCEPT !.result = canonicalize_path(loc.path)]
  /\ pc' = "done"
  /\ UNCHANGED <<fs, ino, rd>>

\* canonicalize_path called with a path that canonicalize_path returned.
CanonicalizeAgain ==
  /\ pc = "done"
  /\ ~loc.result.threw
  /\ loc' = [loc EXCEPT !.again = canonicalize_path(loc.result.value)]
  /\ pc' = "again"
  /\ UNCHANGED <<fs, ino, rd>>

CpNext == CanonicalizePath \/ CanonicalizeAgain

SpecCanonicalize == CpInit /\ [][CpNext]_vars

\* The components of the path below the root, the working directory before
\* them when the path is relative.
PartsFromRoot(path) ==
  string_list(IF path # <<>> /\ path[1] = "/" THEN path ELSE WorkDir \o <<"/">> \o path, "/")

\* Somewhere in the path more ".." than names have been passed.
AscendsAboveRoot(path) ==
  LET parts == PartsFromRoot(path)
  IN  \E k \in 1..Len(parts) :
        Cardinality({i \in 1..k : parts[i] = <<".", ".">>})
          > Cardinality({i \in 1..k : parts[i] \notin {<<>>, <<".">>, <<".", ".">>}})

IsCanonicalForm(path) ==
  /\ path # <<>>
  /\ path[1] = "/"
  /\ path # <<"/">> => path[Len(path)] # "/"
  /\ find(path, <<"/", "/">>) = 0
  /\ find(path, <<"/", ".", "/">>) = 0
  /\ find(path, <<"/", ".", ".", "/">>) = 0
  /\ ~EndsWith(path, <<"/", ".">>)
  /\ ~EndsWith(path, <<"/", ".", ".">>)

\* C18: without _WIN32 canonicalize_path raises an error when ".." would
\* ascend above the root, and otherwise returns an absolute path with no
\* empty, "." or ".." component and no trailing separator (the root is "/");
\* applied to its own result it returns that result.
C18_CanonicalForm ==
  /\ pc \in {"done", "again"} =>
       IF AscendsAboveRoot(loc.path) THEN loc.result.threw
       ELSE ~loc.result.threw /\ IsCanonicalForm(loc.result.value)
  /\ pc = "again" => loc.again = loc.result

\* A relative path with a ".", an empty and a ".." component was made
\* canonical, which gave the root, and the result was made canonical again.
C18_Witness ==
  /\ pc = "again"
  /\ loc.path = <<".", "/", "/", ".", ".">>
  /\ loc.result = Ok(<<"/">>)

\* The path leaves the working directory and then the root.
C18_WitnessAboveRoot ==
  /\ pc = "done"
  /\ loc.path = <<".", ".", "/", ".", ".">>
  /\ loc.result.threw


(***************************************************************************)
(* try_get_obj_filename of the msvc wrapper, applied to two argument lists *)
(* that name the same output X, one as /FoX and one as /Fo:X.              *)
(***************************************************************************)
FoTargets == {<<"a", ".", "o", "b", "j">>, <<"s", "\\", "b", ".", "o">>, <<"C", ".", "O", "B", "J">>, <<"d", "\\">>, <<"s", "\\", "d", "\\">>}
FoInputFiles == {<<"a", ".", "c", "p", "p">>, <<"s", "\\", "b", ".", "C">>, <<"x", ".", "t", "x", "t">>}
FoOtherArgs == {<<"/", "c">>, <<"/", "W", "3">>}

FoInit ==
  /\ fs = <<>>
  /\ ino = <<>>
  /\ rd = <<>>
  /\ pc = "start"
  /\ \E win \in BOOLEAN, fo \in {<<"/", "F", "o">>, <<"-", "F", "o">>}, x \in FoTargets, input \in FoInputFiles :
       \E rest \in SeqsUpTo(FoOtherArgs, MaxArgs - 1) :
         loc = [win |-> win, target |-> x,
                m_args |-> <<<<"c", "l">>, fo \o x>> \o rest \o <<input>>,
                colon_args |-> <<<<"c", "l">>, fo \o <<":">> \o x>> \o rest \o <<input>>,
                result |-> Ok(<<>>), colon_result |-> Ok(<<>>)]

TryGetObjFilename ==
  /\ pc = "start"
  /\ loc' = [loc EXCEPT !.result = try_get_obj_filename(loc.m_args),
                        !.colon_result = try_get_obj_filename(loc.colon_args)]
  /\ pc' = "done"
  /\ UNCHANGED <<fs, ino, rd>>

FoNext == TryGetObjFilename

SpecObjFilename == FoInit /\ [][FoNext]_vars

\* C19: try_get_obj_filename of the msvc wrapper gives the same object path
\* for /FoX and for /Fo:X, when X is an object file and when X is a directory
\* that ends in a backslash.
C19_ColonMakesNoDifference ==
  pc = "done" => loc.result = loc.colon_result

\* The same when X is an object file.
C19_ColonMakesNoDifferenceForFiles ==
  (pc = "done" /\ is_object_file(get_extension(loc.target))) => loc.result = loc.colon_result


(***************************************************************************)
(* get_include_files of the msvc wrapper, applied to what cl /showIncludes *)
(* may write to stderr.                                                    *)
(***************************************************************************)
ShowIncludesLines ==
  {<<"N", "o", "t", "e", ":", " ", "i", "n", "c", "l", "u", "d", "i", "n", "g", " ", "f", "i", "l", "e", ":", " ", "/", "w", "/", "a", ".", "h">>, <<"N", "o", "t", "e", ":", " ", "i", "n", "c", "l", "u", "d", "i", "n", "g", " ", "f", "i", "l", "e", ":", " ", " ", " ", "s", "/", "k", ".", "h", " ", " ">>,
   <<"N", "o", "t", "e", ":", " ", "i", "n", "c", "l", "u", "d", "i", "n", "g", " ", "f", "i", "l", "e", ":", "/", "w", "/", "a", ".", "h">>, <<"N", "o", "t", "e", ":", " ", "i", "n", "c", "l", "u", "d", "i", "n", "g", " ", "f", "i", "l", "e", ":">>,
   <<"1", ">", "N", "o", "t", "e", ":", " ", "i", "n", "c", "l", "u", "d", "i", "n", "g", " ", "f", "i", "l", "e", ":", " ", " ", "/", "w", "/", "a", ".", "h">>, <<"i", "n", "t", " ", "x", ";">>}

MiInit ==
  /\ ino = <<>>
  /\ rd = <<>>
  /\ pc = "start"
  /\ \E files \in SUBSET IncludeTree : fs = [files |-> files, links |-> {}]
  /\ \E lines \in SeqsUpTo(ShowIncludesLines, MaxLines) :
       loc = [win |-> FALSE, lines |-> lines, std_err |-> StdErr(lines), result |-> Ok(<<>>)]

MsvcGetIncludeFiles ==
  /\ pc = "start"
  /\ loc' = [loc EXCEPT !.result = msvc_get_include_files(loc.std_err)]
  /\ pc' = "done"
  /\ UNCHANGED <<fs, ino, rd>>

MiNext == MsvcGetIncludeFiles

SpecShowIncludes == MiInit /\ [][MiNext]_vars

\* The text of a line behind "Note: including file:", without the white space
\* around it.
TextAfterPrefix(line) == strip(substr(line, find(line, INCPATH_LINE) + Len(INCPATH_LINE)))

NotedLines == {i \in 1..Len(loc.lines) : find(loc.lines[i], INCPATH_LINE) # 0}

NotedIncludes == {resolve_path(TextAfterPrefix(loc.lines[i])) : i \in NotedLines}

\* C20: get_include_files of the msvc wrapper completes without error for
\* every content of stderr, a line that ends directly behind "Note: including
\* file:" included, and returns once each the resolved paths of the texts
\* that follow the prefix in the lines that hold it, however many spaces
\* stand between.
C20_EveryNotedInclude ==
  pc = "done" =>
    /\ ~loc.result.threw
    /\ {loc.result.value[i] : i \in 1..Len(loc.result.value)} = NotedIncludes
    /\ \A i, j \in 1..Len(loc.result.value) : i # j => loc.result.value[i] # loc.result.value[j]

\* The same when at least one character, a space, follows every prefix.
C20_EveryNotedIncludeBehindSpace ==
  (pc = "done" /\ \A i \in NotedLines :
                    LET behind == find(loc.lines[i], INCPATH_LINE) + Len(INCPATH_LINE)
                    IN  behind <= Len(loc.lines[i]) /\ loc.lines[i][behind] = " ")
    => /\ ~loc.result.threw
       /\ {loc.result.value[i] : i \in 1..Len(loc.result.value)} = NotedIncludes
       /\ \A i, j \in 1..Len(loc.result.value) :
            i # j => loc.result.value[i] # loc.result.value[j]


(***************************************************************************)
(* utf8_to_ucs2 with _WIN32 after conv.from_bytes has thrown: the bytes of *)
(* str8 are taken as UTF-16 units when IsTextUnicode says so.  A string is *)
(* the sequence of its bytes, a wide string the sequence of its units.     *)
(***************************************************************************)
MaxBytes == 4

ByteValues == {0, 65, 255}

\* The byte-order mark U+FEFF as the two bytes of a little-endian unit.
BomBytes == <<255, 254>>

\* reinterpreted[k], k counted from 0: the bytes 2k and 2k + 1 of str8.
reinterpreted(str8, k) == str8[2 * k + 1] + 256 * str8[2 * k + 2]

start_offset_none(signature) == 0

\* if (unicodeTests & IS_TEXT_UNICODE_SIGNATURE) startOffset = 1; the
\* statement "wideLength - 1;" changes nothing.
start_offset(signature) == IF signature THEN 1 ELSE 0

\* The fallback: the units from reinterpreted + startOffset up to
\* reinterpreted + wideLength, and the bytes of str8 that are read for them.
utf8_to_ucs2_fallback(str8, is_text_unicode, signature) ==
  LET wideLength == Len(str8) \div 2
      startOffset == start_offset(signature)
      count == IF wideLength > startOffset THEN wideLength - startOffset ELSE 0
  IN  IF ~is_text_unicode THEN [converted |-> <<>>, read |-> {}]
      ELSE [converted |-> [k \in 1..count |-> reinterpreted(str8, startOffset + k - 1)],
            read |-> UNION {{2 * (startOffset + k - 1) + 1, 2 * (startOffset + k - 1) + 2} :
                              k \in 1..count}]

WsInit ==
  /\ fs = <<>>
  /\ ino = <<>>
  /\ rd = <<>>
  /\ pc = "thrown"
  /\ \E bom \in BOOLEAN, body \in SeqsUpTo(ByteValues, MaxBytes), unicode \in BOOLEAN :
       loc = [win |-> TRUE, str8 |-> (IF bom THEN BomBytes ELSE <<>>) \o body,
              body |-> body, signature |-> bom, is_text_unicode |-> unicode,
              converted |-> <<>>, read |-> {}]

Utf8ToUcs2Fallback ==
  /\ pc = "thrown"
  /\ LET r == utf8_to_ucs2_fallback(loc.str8, loc.is_text_unicode, loc.signature)
     IN  loc' = [loc EXCEPT !.converted = r.converted, !.read = r.read]
  /\ pc' = "returned"
  /\ UNCHANGED <<fs, ino, rd>>

WsNext == Utf8ToUcs2Fallback

SpecUtf8ToUcs2 == WsInit /\ [][WsNext]_vars

\* The units of the bytes that follow the byte-order mark.
UnitsOf(bytes) == [k \in 1..(Len(bytes) \div 2) |-> bytes[2 * k - 1] + 256 * bytes[2 * k]]

\* C21: in the fallback of utf8_to_ucs2 for an input that is UTF-16 and starts
\* with a byte-order mark, the result is the units of the input that follow
\* the mark, in order: size/2 - 1 units, and no byte behind the end of the
\* input is read.
C21_UnitsAfterBom ==
  (pc = "returned" /\ loc.is_text_unicode /\ loc.signature) =>
    /\ loc.converted = UnitsOf(loc.body)
    /\ Len(loc.converted) = (Len(loc.str8) \div 2) - 1
    /\ loc.read \subseteq 1..Len(loc.str8)
    /\ \A b \in loc.read : b > Len(BomBytes)

\* An input of a byte-order mark, two units and a single byte behind them
\* was converted.
C21_Witness ==
  /\ pc = "returned"
  /\ loc.is_text_unicode
  /\ loc.signature
  /\ Len(loc.body) = 3
  /\ Len(loc.converted) = 1
  /\ loc.converted[1] = 65 + 256 * 255


(***************************************************************************)
(* file::read and file::write.  fs is the file as the stream finds it:     *)
(* fs.size bytes when it is opened, fs.length bytes that can be reached by *)
(* the time they are read (the file may have been cut meanwhile), and      *)
(* fs.bad, the first byte the device fails at (EIO, ENOSPC), 0 for none.   *)
(***************************************************************************)
MaxFileSize == 3

RwInit ==
  /\ ino = <<>>
  /\ rd = <<>>
  /\ pc = "open"
  /\ \E size \in 0..MaxFileSize :
       \E length \in 0..size :
         \E bad \in 0..length : fs = [size |-> size, length |-> length, bad |-> bad]
  /\ \E op \in {"read", "write"} :
       loc = [win |-> FALSE, op |-> op, file_size |-> 0, bytes_left |-> 0,
              feof |-> FALSE, ferror |-> FALSE, err |-> ""]

\* fopen; read: fseek, ftell, fseek give file_size; write: file_size = data.size().
RwOpen(ok) ==
  /\ pc = "open"
  /\ IF ok
       THEN /\ loc' = [loc EXCEPT !.file_size = fs.size, !.bytes_left = fs.size]
            /\ pc' = "loop"
       ELSE /\ loc' = [loc EXCEPT !.err = "Unable to open the file."]
            /\ pc' = "threw"
  /\ UNCHANGED <<fs, ino, rd>>

\* The bytes in front of the stream before the end or the failing byte.
Reachable ==
  LET pos == loc.file_size - loc.bytes_left
      limit == IF fs.bad # 0 THEN fs.bad - 1
               ELSE IF loc.op = "read" THEN fs.length ELSE fs.size
  IN  IF limit > pos THEN limit - pos ELSE 0

\* read: while ((bytes_left != 0U) && (std::feof(f) == 0)): one fread, which
\* returns bytes_read bytes, 0 with the end-of-file indicator at the end of
\* the file, 0 with the error indicator when the device fails.
ReadLoop ==
  /\ pc = "loop"
  /\ loc.op = "read"
  /\ IF loc.bytes_left # 0 /\ ~loc.feof
       THEN /\ pc' = "loop"
            /\ IF Reachable = 0
                 THEN loc' = IF fs.bad # 0 THEN [loc EXCEPT !.ferror = TRUE]
                             ELSE [loc EXCEPT !.feof = TRUE]
                 ELSE \E bytes_read \in 1..Reachable :
                        loc' = [loc EXCEPT !.bytes_left = loc.bytes_left - bytes_read]
       ELSE /\ pc' = "close"
            /\ UNCHANGED loc
  /\ UNCHANGED <<fs, ino, rd>>

\* write: while ((bytes_left != 0U) && (std::ferror(f) == 0)): one fwrite, which
\* returns fewer bytes than asked for, with the error indicator, when the
\* device fails.
WriteLoop ==
  /\ pc = "loop"
  /\ loc.op = "write"
  /\ IF loc.bytes_left # 0 /\ ~loc.ferror
       THEN /\ pc' = "loop"
            /\ IF Reachable = 0
                 THEN loc' = [loc EXCEPT !.ferror = TRUE]
                 ELSE \E bytes_written \in 1..Reachable :
                        loc' = [loc EXCEPT !.bytes_left = loc.bytes_left - bytes_written]
       ELSE /\ pc' = "close"
            /\ UNCHANGED loc
  /\ UNCHANGED <<fs, ino, rd>>

\* fclose; if (bytes_left != 0U) throw.
RwClose ==
  /\ pc = "close"
  /\ IF loc.bytes_left # 0
       THEN /\ loc' = [loc EXCEPT !.err = IF loc.op = "read" THEN "Unable to read the file."
                                          ELSE "Unable to write the file."]
            /\ pc' = "threw"
       ELSE /\ pc' = "returned"
            /\ UNCHANGED loc
  /\ UNCHANGED <<fs, ino, rd>>

RwNext ==
  \/ \E ok \in BOOLEAN : RwOpen(ok)
  \/ ReadLoop
  \/ WriteLoop
  \/ RwClose

SpecReadWrite == RwInit /\ [][RwNext]_vars /\ WF_vars(RwNext)

\* C23: file::read and file::write terminate for every behaviour of the reads
\* and writes below them: when a read returns no bytes because of an I/O
\* error, read stops and raises "Unable to read the file."; write stops when
\* a write fails.
C23_ReadAndWriteTerminate == <>(pc \in {"returned", "threw"})

\* file::write terminates, with "Unable to write the file." when a write
\* has failed.
C23_WriteTerminates ==
  /\ (loc.op = "write") ~> (pc \in {"returned", "threw"})
  /\ [](loc.op = "write" /\ loc.ferror /\ pc = "threw" => loc.err = "Unable to write the file.")

\* file::read terminates when no read fails: at the end of a file that was cut
\* it raises "Unable to read the file.".
C23_ReadTerminatesWithoutError ==
  (loc.op = "read" /\ fs.bad = 0) ~> (pc \in {"returned", "threw"})


(***************************************************************************)
(* walk_directory with the sizes of the entries.  A node of the tree is    *)
(* nothing, a regular file with its st_size, or a directory with its       *)
(* entries in readdir order; the entry "b" is never a directory.           *)
(***************************************************************************)
WalkDepth == 3

WalkNames == <<"a", "b">>
FileSizes == {1, 2}

NoNode == [kind |-> "none", size |-> 0, entries |-> <<>>]
FileNodes == {[kind |-> "file", size |-> s, entries |-> <<>>] : s \in FileSizes}

RECURSIVE DirNodes(_)
\* The directories with at most d levels below them.
DirNodes(d) ==
  {[kind |-> "dir", size |-> 0, entries |-> <<a, b>>] :
     a \in {NoNode} \cup FileNodes \cup (IF d > 1 THEN DirNodes(d - 1) ELSE {}),
     b \in {NoNode} \cup FileNodes}

RECURSIVE SumSizes(_)
\* for (const auto& entry : subdir_files) size += entry.size();
SumSizes(files) == IF files = <<>> THEN 0 ELSE Head(files).size + SumSizes(Tail(files))

RECURSIVE WalkSizesFrom(_, _, _)
\* The readdir loop of walk_directory(path) from the i-th entry on.
WalkSizesFrom(path, dir, i) ==
  IF i > Len(dir.entries) THEN <<>>
  ELSE LET node == dir.entries[i]
           file_path == Append(path, WalkNames[i])
           subdir_files == WalkSizesFrom(file_path, node, 1)
           here == CASE node.kind = "dir" ->
                          subdir_files \o <<[path |-> file_path, size |-> SumSizes(subdir_files),
                                             is_dir |-> TRUE]>>
                     [] node.kind = "file" ->
                          <<[path |-> file_path, size |-> node.size, is_dir |-> FALSE]>>
                     [] OTHER -> <<>>
       IN  here \o WalkSizesFrom(path, dir, i + 1)

walk_directory_sizes(path, dir) == WalkSizesFrom(path, dir, 1)

WkInit ==
  /\ ino = <<>>
  /\ rd = <<>>
  /\ pc = "start"
  /\ fs \in DirNodes(WalkDepth)
  /\ loc = [win |-> FALSE, files |-> <<>>]

WalkDirectory ==
  /\ pc = "start"
  /\ loc' = [loc EXCEPT !.files = walk_directory_sizes(RootPath, fs)]
  /\ pc' = "done"
  /\ UNCHANGED <<fs, ino, rd>>

WkNext == WalkDirectory

SpecWalkDirectory == WkInit /\ [][WkNext]_vars

RECURSIVE FilesSize(_)
\* The sum of the sizes of the regular files in and beneath a node.
FilesSize(node) ==
  CASE node.kind = "file" -> node.size
    [] node.kind = "dir" -> FilesSize(node.entries[1]) + FilesSize(node.entries[2])
    [] OTHER -> 0

RECURSIVE Beneath(_, _)
\* The files and directories beneath a directory, as walk_directory is to
\* report them.
Beneath(path, dir) ==
  UNION {LET node == dir.entries[i]
             file_path == Append(path, WalkNames[i])
         IN  CASE node.kind = "dir" ->
                    {[path |-> file_path, size |-> FilesSize(node), is_dir |-> TRUE]}
                      \cup Beneath(file_path, node)
               [] node.kind = "file" ->
                    {[path |-> file_path, size |-> node.size, is_dir |-> FALSE]}
               [] OTHER -> {} :
         i \in 1..Len(dir.entries)}

\* C24: in the list walk_directory returns, the size of every directory is
\* the sum of the sizes of the regular files beneath it, each counted once,
\* for every nesting depth, and every file and directory beneath the walked
\* path is in the list exactly once.
C24_DirectorySizes ==
  pc = "done" =>
    /\ {loc.files[i] : i \in 1..Len(loc.files)} = Beneath(RootPath, fs)
    /\ Len(loc.files) = Cardinality(Beneath(RootPath, fs))

\* Every file and directory beneath the walked path is in the list exactly
\* once, and the size of a directory that holds no directory with files in it
\* is the sum of the sizes of its files.
C24_EveryEntryOnce ==
  pc = "done" =>
    /\ {[path |-> loc.files[i].path, is_dir |-> loc.files[i].is_dir] : i \in 1..Len(loc.files)}
         = {[path |-> e.path, is_dir |-> e.is_dir] : e \in Beneath(RootPath, fs)}
    /\ \A i, j \in 1..Len(loc.files) : i # j => loc.files[i].path # loc.files[j].path
    /\ \A i \in 1..Len(loc.files) :
         (\A j \in 1..Len(loc.files) :
            (loc.files[j].is_dir /\ IsPrefix(loc.files[i].path, loc.files[j].path) /\ i # j)
              => loc.files[j].size = 0)
           => loc.files[i] \in Beneath(RootPath, fs)


(***************************************************************************)
(* create_dir_with_parents called by several processes at once.  A path is *)
(* the sequence of its names; fs is the set of the directories that exist; *)
(* loc.stack[p] holds the paths of the calls of process p that have not    *)
(* returned, the innermost first.  dir_exists and mkdir are one system     *)
(* call each, and the processes interleave between them.                   *)
(***************************************************************************)
NumCallers == 2
DirDepth == 3

Callers == 1 .. NumCallers
DirPath(n) == [i \in 1 .. n |-> "d"]
DirPaths == {DirPath(n) : n \in 1 .. DirDepth}

\* path.substr(0, pos) up to the last separator; empty when there is none.
get_dir_part(path) == IF path = <<>> THEN <<>> ELSE SubSeq(path, 1, Len(path) - 1)

\* stat(path) succeeds and S_ISDIR.
DirExists(path) == path \in fs

CdInit ==
  /\ ino = <<>>
  /\ rd = <<>>
  /\ \E e \in 0 .. DirDepth : fs = {DirPath(n) : n \in 1 .. e}
  /\ \E req \in [Callers -> DirPaths] :
       loc = [win |-> FALSE, req |-> req, before |-> fs,
              stack |-> [p \in Callers |-> <<req[p]>>]]
  /\ pc = [p \in Callers |-> "check_parent"]

\* The call on top of the stack of p returns to its caller, which goes on
\* after the recursive call.
CdReturn(p) ==
  /\ loc' = [loc EXCEPT !.stack[p] = Tail(@)]
  /\ pc' = [pc EXCEPT ![p] = IF Len(loc.stack[p]) = 1 THEN "returned" ELSE "check_path"]

\* create_dir_with_parents: if (parent.size() < path.size() && !parent.empty()
\* && !dir_exists(parent)) create_dir_with_parents(parent);
CheckParent(p) ==
  /\ pc[p] = "check_parent"
  /\ LET path == Head(loc.stack[p])
         parent == get_dir_part(path)
     IN  IF Len(parent) < Len(path) /\ parent # <<>> /\ ~DirExists(parent)
           THEN /\ loc' = [loc EXCEPT !.stack[p] = <<parent>> \o @]
                /\ UNCHANGED pc
           ELSE /\ pc' = [pc EXCEPT ![p] = "check_path"]
                /\ UNCHANGED loc
  /\ UNCHANGED <<fs, ino, rd>>

\* create_dir_with_parents: if (!path.empty() && !dir_exists(path)) create_dir(path);
CheckPath(p) ==
  /\ pc[p] = "check_path"
  /\ LET path == Head(loc.stack[p])
     IN  IF path # <<>> /\ ~DirExists(path)
           THEN /\ pc' = [pc EXCEPT ![p] = "create_dir"]
                /\ UNCHANGED loc
           ELSE CdReturn(p)
  /\ UNCHANGED <<fs, ino, rd>>

\* create_dir: mkdir(path) fails with EEXIST when path exists and with ENOENT
\* when its parent does not; a failure throws through every call of p.
CreateDir(p) ==
  /\ pc[p] = "create_dir"
  /\ LET path == Head(loc.stack[p])
         parent == get_dir_part(path)
     IN  IF ~DirExists(path) /\ (parent = <<>> \/ DirExists(parent))
           THEN /\ fs' = fs \cup {path}
                /\ CdReturn(p)
           ELSE /\ pc' = [pc EXCEPT ![p] = "threw"]
                /\ UNCHANGED <<fs, loc>>
  /\ UNCHANGED <<ino, rd>>

CdNext ==
  \E p \in Callers :
    \/ CheckParent(p)
    \/ CheckPath(p)
    \/ CreateDir(p)

SpecCreateDir == CdInit /\ [][CdNext]_vars

\* C27: when several processes call create_dir_with_parents on the same path,
\* or on paths that share missing parent directories, at once, no call raises
\* an error and after the calls all requested directories exist; a call on a
\* directory that exists already changes nothing and raises no error.
C27_ConcurrentCallsSucceed ==
  /\ \A p \in Callers : pc[p] # "threw"
  /\ (\A p \in Callers : pc[p] = "returned") => \A p \in Callers : DirExists(loc.req[p])
  /\ (\A p \in Callers : loc.req[p] \in loc.before) => fs = loc.before

\* A call on a directory that exists already raises no error and does not
\* come to mkdir; when no call is on a missing directory nothing changes; and
\* a call that returns without error leaves its directory in place.
C27_ExistingDirectoryUnchanged ==
  /\ \A p \in Callers :
       loc.req[p] \in loc.before => pc[p] \notin {"create_dir", "threw"}
  /\ (\A p \in Callers : loc.req[p] \in loc.before) => fs = loc.before
  /\ \A p \in Callers : pc[p] = "returned" => DirExists(loc.req[p])

\* A call raises an error only when another process made the directory
\* between its dir_exists and its mkdir.
C27_ThrowsOnlyWhenOvertaken ==
  \A p \in Callers : pc[p] = "threw" => DirExists(Head(loc.stack[p]))

=============================================================================
